---- MODULE Spec2Model ----
(***************************************************************************)
(* mailbeads: the local store (emails + triage ledger), the v1 -> v2       *)
(* schema migration, the v1 ledger queries and the v2 cross-reference      *)
(* commands that talk to the beads tracker.                                *)
(*                                                                         *)
(* Times and dates are natural numbers ordered as the stored strings are   *)
(* ordered; NULL is the SQL NULL of an optional column.                    *)
(***************************************************************************)
EXTENDS Integers, Sequences, FiniteSets, TLC

\* ------------------------------------------------------------------ bounds
MaxTime == 2        \* the clock runs 1..MaxTime
MaxOps == 6         \* a behaviour runs at most this many operations
MaxIDLen == 2       \* the resolver's record IDs have this many characters, its queries up to as many

\* ---------------------------------------------------------------- universe
Accounts == {"a1", "a2"}
ThreadIDs == {"t1", "t2"}
TriageIDs == {"r1", "r2", "r3"}          \* what GenID can return
BeadIDs == {"bd-1", "bd-2", "bd-3", "bd-4"}              \* what the tracker can name a new issue
Dates == 1..MaxTime
NULL == 0

\* The processes that can run mb triage at one time, and a process that runs none.
Procs == {"p1", "p2"}
NotRunning == [pc |-> "none", thread |-> "", account |-> "", beadID |-> "",
               created |-> FALSE, wrote |-> FALSE, err |-> ""]
NoProcs == [p \in Procs |-> NotRunning]

\* The messages the mail provider can deliver. m1 and m1dup share one message ID
\* and differ in content; m3 has the thread ID of m1 under another account.
Messages ==
    { [id |-> "m1", account |-> "a1", thread_id |-> "t1", date |-> 1, subject |-> "s1"],
      [id |-> "m1", account |-> "a1", thread_id |-> "t1", date |-> 2, subject |-> "s2"],
      [id |-> "m2", account |-> "a1", thread_id |-> "t1", date |-> 2, subject |-> "s1"],
      [id |-> "m3", account |-> "a2", thread_id |-> "t1", date |-> 1, subject |-> "s1"],
      [id |-> "m4", account |-> "a1", thread_id |-> "t2", date |-> 1, subject |-> "s2"] }

PriorityHigh == "high"
PriorityMedium == "medium"
PriorityLow == "low"
PrioritySpam == "spam"
ValidPriorities == {PriorityHigh, PriorityMedium, PriorityLow, PrioritySpam}

StatusPending == "pending"
StatusDone == "done"
StatusDismissed == "dismissed"
StatusSnoozed == "snoozed"
ValidStatuses == {StatusPending, StatusDone, StatusDismissed, StatusSnoozed}

VARIABLES
    emails,       \* rows of the emails relation
    tables,       \* names of the relations present in the store file
    triageShape,  \* "v1" (fat record) or "v2" (cross-reference): columns of triage
    triage,       \* rows of the triage relation
    triage_old,   \* rows of triage_old (exists only during a migration)
    triage_deps,  \* rows of triage_deps: [triage_id, depends_on_id]
    issues,       \* the tracker: bead id -> "open" | "closed", for every issue created
    upgraded,     \* whether the v2 program has been run on this store
    now,          \* the clock
    last,         \* the last operation and what it returned
    ops,          \* how many operations have run
    firstInsert,  \* history: message id -> the first row inserted under it
    v1Rows,       \* history: the v1 rows the last migration started from
    procs         \* the invocations of mb triage under way: process -> position and locals

vars == <<emails, tables, triageShape, triage, triage_old, triage_deps, issues,
          upgraded, now, last, ops, firstInsert, v1Rows, procs>>

storeVars == <<tables, triageShape, triage, triage_old, triage_deps>>

Pair(t, a) == <<t, a>>
Max(S) == CHOOSE x \in S : \A y \in S : y <= x
HasPrefix(s, prefix) == Len(s) >= Len(prefix) /\ SubSeq(s, 1, Len(prefix)) = prefix

\* Now: the current time.
Now == now

\* Every operation counts; a behaviour ends after MaxOps of them.
Counted == ops < MaxOps /\ ops' = ops + 1

\* ------------------------------------------------------------ message store

\* INSERT OR REPLACE INTO emails: the row of the same id gives way to the new one.
InsertOrReplace(rows, e) ==
    {r \in rows : r.id # e.id} \cup {e}

\* INSERT OR IGNORE INTO emails: a row whose id is already present is skipped.
InsertOrIgnore(rows, e) ==
    IF \E r \in rows : r.id = e.id THEN rows ELSE rows \cup {e}

EmailExists(id) == \E r \in emails : r.id = id

ThreadEmails(threadID, account) ==
    {r \in emails : r.thread_id = threadID /\ r.account = account}

ThreadAccounts(threadID) == {r.account : r \in {x \in emails : x.thread_id = threadID}}

\* The (thread_id, account) groups of the emails relation.
EmailThreads == {Pair(r.thread_id, r.account) : r \in emails}

\* ThreadInfo: the aggregate of one group; it is sql.ErrNoRows unless HasThread.
HasThread(threadID, account) == ThreadEmails(threadID, account) # {}
ThreadInfo(threadID, account) ==
    LET g == ThreadEmails(threadID, account) IN
    [thread_id |-> threadID, account |-> account,
     email_count |-> Cardinality(g),
     latest_date |-> Max({r.date : r \in g})]

\* InsertEmail(e): the row is stamped with the fetch time by the caller.
InsertEmail(m) ==
    /\ Counted
    /\ "emails" \in tables
    /\ LET e == [id |-> m.id, account |-> m.account, thread_id |-> m.thread_id,
                 date |-> m.date, subject |-> m.subject, fetched_at |-> Now] IN
       /\ emails' = InsertOrIgnore(emails, e)
       /\ firstInsert' = IF m.id \in DOMAIN firstInsert THEN firstInsert
                         ELSE (m.id :> e) @@ firstInsert
       /\ last' = [op |-> "InsertEmail", key |-> m.id, ok |-> TRUE, out |-> NULL]
    /\ UNCHANGED <<storeVars, issues, upgraded, now, v1Rows, procs>>

\* ------------------------------------------------------- triage ledger, v1

\* A v1 row: [id, thread_id, account, priority, status, snoozed_until,
\* latest_date, created_at, updated_at]. The free-text columns (subject, action,
\* suggestion, notes, category) and email_count are written and read back
\* unchanged by every operation below and are left out.

\* The rows WHERE thread_id = ?, whatever the account.
TriageOfThread(threadID, account) ==
    {r \in triage : r.thread_id = threadID}

\* The rows WHERE thread_id = ? AND account = ?.
TriageOf(threadID, account) ==
    {r \in triage : r.thread_id = threadID /\ r.account = account}

\* GetTriage: the row of a thread; HasTriage is its "not sql.ErrNoRows".
HasTriage(threadID, account) == TriageOf(threadID, account) # {}
GetTriage(threadID, account) == CHOOSE r \in TriageOf(threadID, account) : TRUE

\* GenID: a random 64-bit ID. The ledger treats IDs as opaque, so which unused ID
\* comes out is immaterial, and one is fixed; it never repeats an ID in use.
GenID == CHOOSE id \in TriageIDs : id \notin {r.id : r \in triage}

\* The UPDATE branch without its status = 'pending'.
UpsertUpdateKeepStatus(rows, existing, t, at) ==
    {IF r.id = existing.id
        THEN [r EXCEPT !.priority = t.priority, !.latest_date = t.latest_date,
                       !.updated_at = at]
        ELSE r : r \in rows}

\* The UPDATE branch of UpsertTriage: every row WHERE id = existing.ID.
UpsertUpdate(rows, existing, t, at) ==
    {IF r.id = existing.id
        THEN [r EXCEPT !.priority = t.priority, !.latest_date = t.latest_date,
                       !.updated_at = at, !.status = StatusPending]
        ELSE r : r \in rows}

\* The INSERT branch of UpsertTriage.
UpsertInsert(rows, id, t, at) ==
    rows \cup {[id |-> id, thread_id |-> t.thread_id, account |-> t.account,
                priority |-> t.priority, status |-> StatusPending,
                snoozed_until |-> NULL, latest_date |-> t.latest_date,
                created_at |-> at, updated_at |-> NULL]}

\* UpsertTriage without its lookup of the existing row: always the INSERT branch.
UpsertAlwaysInsert(t) ==
    LET id == GenID IN
    /\ triage' = UpsertInsert(triage, id, t, Now)
    /\ last' = [op |-> "UpsertTriage", key |-> Pair(t.thread_id, t.account),
                ok |-> TRUE, out |-> [created |-> TRUE, id |-> id]]

\* UpsertTriage(t): returns created and the row's ID in last.out.
UpsertTriage(t) ==
    IF HasTriage(t.thread_id, t.account)
    THEN LET existing == GetTriage(t.thread_id, t.account) IN
         /\ triage' = UpsertUpdate(triage, existing, t, Now)
         /\ last' = [op |-> "UpsertTriage", key |-> Pair(t.thread_id, t.account),
                     ok |-> TRUE, out |-> [created |-> FALSE, id |-> existing.id]]
    ELSE LET id == GenID IN
         /\ triage' = UpsertInsert(triage, id, t, Now)
         /\ last' = [op |-> "UpsertTriage", key |-> Pair(t.thread_id, t.account),
                     ok |-> TRUE, out |-> [created |-> TRUE, id |-> id]]

\* The UPDATE of UpdateTriageStatus with WHERE id LIKE ? || '%'.
SetStatusByPrefix(rows, id, status, at) ==
    {IF HasPrefix(r.id, id) THEN [r EXCEPT !.status = status, !.updated_at = at] ELSE r :
        r \in rows}

\* The UPDATE of UpdateTriageStatus: every row WHERE id = ?.
SetStatusRows(rows, id, status, at) ==
    {IF r.id = id THEN [r EXCEPT !.status = status, !.updated_at = at] ELSE r : r \in rows}

\* UpdateTriageStatus(id, status): not-found when no row was affected.
UpdateTriageStatus(id, status) ==
    LET n == Cardinality({r \in triage : r.id = id}) IN
    /\ triage' = SetStatusRows(triage, id, status, Now)
    /\ last' = IF n # 0
               THEN [op |-> "UpdateTriageStatus", key |-> id, ok |-> TRUE, out |-> status]
               ELSE [op |-> "UpdateTriageStatus", key |-> id, ok |-> FALSE, out |-> NULL]

\* The blocker subquery without blocker.status = 'pending'.
ReadyBlockedAnyStatus(t) ==
    \E d \in triage_deps : \E blocker \in triage :
        /\ d.depends_on_id = blocker.id
        /\ d.triage_id = t.id

\* ReadyTriage: pending, not snoozed into the future, and no row of triage_deps
\* JOIN triage (as blocker) for this row whose blocker is pending.
ReadyBlocked(t) ==
    \E d \in triage_deps : \E blocker \in triage :
        /\ d.depends_on_id = blocker.id
        /\ d.triage_id = t.id
        /\ blocker.status = StatusPending

\* ReadyTriage without its NOT EXISTS clause.
ReadyIgnoringDeps ==
    {t \in triage :
        /\ t.status = StatusPending
        /\ (t.snoozed_until = NULL \/ t.snoozed_until <= Now)}

ReadyTriage ==
    {t \in triage :
        /\ t.status = StatusPending
        /\ (t.snoozed_until = NULL \/ t.snoozed_until <= Now)
        /\ ~ReadyBlocked(t)}

\* UntriagedThreads without the stale branch of its HAVING clause.
UntriagedNeverTriaged(account) ==
    {p \in EmailThreads :
        /\ (account = "" \/ p[2] = account)
        /\ ~HasTriage(p[1], p[2])}

\* UntriagedThreads on the v1 shape: groups of emails LEFT JOIN triage HAVING
\* t.id IS NULL OR t.latest_date < MAX(e.date). A NULL latest_date compares to NULL.
UntriagedThreads(account) ==
    {p \in EmailThreads :
        /\ (account = "" \/ p[2] = account)
        /\ \/ ~HasTriage(p[1], p[2])
           \/ LET t == GetTriage(p[1], p[2]) IN
              t.latest_date # NULL /\ t.latest_date < ThreadInfo(p[1], p[2]).latest_date}

\* ORDER BY: the rows of a result in every order the engine may return them, that
\* is every arrangement in which no row follows one it sorts strictly before
\* (rows that compare equal come out in an order the engine chooses). before is
\* the set of the pairs <<a, b>> of rows with a sorting strictly before b.
Orderings(S, before) ==
    {q \in [1..Cardinality(S) -> S] :
        /\ \A i, j \in 1..Cardinality(S) : i # j => q[i] # q[j]
        /\ \A i, j \in 1..Cardinality(S) : i < j => <<q[j], q[i]>> \notin before}

\* LIMIT n, which the queries append only when limit > 0.
Limit(q, limit) == IF limit > 0 /\ limit < Len(q) THEN SubSeq(q, 1, limit) ELSE q

\* ORDER BY latest_date DESC of UntriagedThreads: latest_date is MAX(e.date).
LaterThread(p, q) == ThreadInfo(p[1], p[2]).latest_date > ThreadInfo(q[1], q[2]).latest_date

\* UntriagedThreads(account, limit): the lists the query can return.
UntriagedThreadsLimit(account, limit) ==
    LET rows == UntriagedThreads(account) IN
    {Limit(q, limit) :
        q \in Orderings(rows, {x \in rows \X rows : LaterThread(x[1], x[2])})}

\* UntriagedCount: COUNT(DISTINCT thread_id || '|' || account) of the emails that
\* the LEFT JOIN pairs with no triage row (WHERE t.id IS NULL).
UntriagedCount == Cardinality({p \in EmailThreads : ~HasTriage(p[1], p[2])})

\* ThreadCount: COUNT(DISTINCT thread_id || '|' || account) of emails.
ThreadCount == Cardinality(EmailThreads)

\* ------------------------------------------------- the v1 program's steps

\* The v1 program works on a store whose triage relation has the v1 shape.
V1Store == {"emails", "triage", "triage_deps"} \subseteq tables /\ triageShape = "v1" /\ ~upgraded

v1Frame == <<emails, tables, triageShape, triage_old, issues, upgraded,
             firstInsert, v1Rows, procs>>

\* triage (v1): the snapshot of the thread is taken from ThreadInfo at triage time.
TriageV1(threadID, account, priority) ==
    /\ Counted
    /\ V1Store
    /\ HasThread(threadID, account)
    /\ UpsertTriage([thread_id |-> threadID, account |-> account, priority |-> priority,
                     latest_date |-> ThreadInfo(threadID, account).latest_date])
    /\ UNCHANGED <<v1Frame, triage_deps, now>>

\* done / dismiss (v1): the status of a record is set by its exact ID.
SetStatusV1(id, status) ==
    /\ Counted
    /\ V1Store
    /\ UpdateTriageStatus(id, status)
    /\ UNCHANGED <<v1Frame, triage_deps, now>>

\* snooze (v1): the record sleeps until a resume time.
SnoozeV1(id, until) ==
    /\ Counted
    /\ V1Store
    /\ \E r \in triage : r.id = id
    /\ triage' = {IF r.id = id
                     THEN [r EXCEPT !.status = StatusSnoozed, !.snoozed_until = until,
                                    !.updated_at = Now]
                     ELSE r : r \in triage}
    /\ last' = [op |-> "Snooze", key |-> id, ok |-> TRUE, out |-> until]
    /\ UNCHANGED <<v1Frame, triage_deps, now>>

\* dep add (v1): a record is made to depend on another.
AddDepV1(id, dependsOn) ==
    /\ Counted
    /\ V1Store
    /\ id # dependsOn
    /\ {id, dependsOn} \subseteq {r.id : r \in triage}
    /\ [triage_id |-> id, depends_on_id |-> dependsOn] \notin triage_deps
    /\ triage_deps' = triage_deps \cup {[triage_id |-> id, depends_on_id |-> dependsOn]}
    /\ last' = [op |-> "AddDep", key |-> id, ok |-> TRUE, out |-> dependsOn]
    /\ UNCHANGED <<v1Frame, triage, now>>

\* Time passes.
Tick ==
    /\ Counted
    /\ now < MaxTime
    /\ now' = now + 1
    /\ last' = [op |-> "Tick", key |-> NULL, ok |-> TRUE, out |-> NULL]
    /\ UNCHANGED <<emails, storeVars, issues, upgraded, firstInsert, v1Rows, procs>>

\* ------------------------------------------------------ schema and migration

\* The store file as the SQL statements see it.
DB == [tables |-> tables, shape |-> triageShape, triage |-> triage,
       old |-> triage_old, deps |-> triage_deps]

LegacyPrefix == "legacy-"

\* UNIQUE(thread_id, account) on a set of rows.
UniqueThreads(rows) ==
    \A r1 \in rows, r2 \in rows :
        (r1.thread_id = r2.thread_id /\ r1.account = r2.account) => r1 = r2

\* The copy without its WHERE status = 'pending'.
CopyAll(old) ==
    {[thread_id |-> r.thread_id, account |-> r.account,
      bead_id |-> LegacyPrefix \o r.id, created_at |-> r.created_at] : r \in old}

\* INSERT INTO triage SELECT thread_id, account, 'legacy-' || id, created_at
\* FROM triage_old WHERE status = 'pending'.
CopyPending(old) ==
    {[thread_id |-> r.thread_id, account |-> r.account,
      bead_id |-> LegacyPrefix \o r.id, created_at |-> r.created_at] :
        r \in {x \in old : x.status = StatusPending}}

\* One SQL statement on the store: [ok, db]. A statement that fails changes nothing.
Exec(stmt, db) ==
    LET fail == [ok |-> FALSE, db |-> db]
        done(d) == [ok |-> TRUE, db |-> d] IN
    CASE stmt = "CREATE TABLE IF NOT EXISTS emails" ->
            done([db EXCEPT !.tables = @ \cup {"emails"}])
      [] stmt = "CREATE TABLE IF NOT EXISTS triage" ->
            IF "triage" \in db.tables THEN done(db)
            ELSE done([db EXCEPT !.tables = @ \cup {"triage"}, !.shape = "v2", !.triage = {}])
      [] stmt = "CREATE INDEX IF NOT EXISTS ON emails" ->
            IF "emails" \in db.tables THEN done(db) ELSE fail
      [] stmt = "CREATE INDEX IF NOT EXISTS ON triage(thread_id, account)" ->
            IF "triage" \in db.tables THEN done(db) ELSE fail
      [] stmt = "CREATE INDEX IF NOT EXISTS ON triage(bead_id)" ->
            IF "triage" \in db.tables /\ db.shape = "v2" THEN done(db) ELSE fail
      [] stmt = "ALTER TABLE triage RENAME TO triage_old" ->
            IF "triage" \in db.tables /\ "triage_old" \notin db.tables
            THEN done([db EXCEPT !.tables = (@ \ {"triage"}) \cup {"triage_old"},
                                 !.old = db.triage, !.triage = {}])
            ELSE fail
      [] stmt = "INSERT INTO triage SELECT FROM triage_old WHERE status = 'pending'" ->
            IF /\ {"triage", "triage_old"} \subseteq db.tables
               /\ db.shape = "v2"
               /\ UniqueThreads(db.triage \cup CopyPending(db.old))
            THEN done([db EXCEPT !.triage = @ \cup CopyPending(db.old)])
            ELSE fail
      [] stmt = "DROP TABLE IF EXISTS triage_old" ->
            done([db EXCEPT !.tables = @ \ {"triage_old"}, !.old = {}])
      [] stmt = "DROP TABLE IF EXISTS triage_deps" ->
            done([db EXCEPT !.tables = @ \ {"triage_deps"}, !.deps = {}])

\* Schema with the copy of the migration ahead of it.
SchemaWithCopy ==
    << "INSERT INTO triage SELECT FROM triage_old WHERE status = 'pending'",
       "CREATE TABLE IF NOT EXISTS emails",
       "CREATE TABLE IF NOT EXISTS triage",
       "CREATE INDEX IF NOT EXISTS ON emails",
       "CREATE INDEX IF NOT EXISTS ON emails",
       "CREATE INDEX IF NOT EXISTS ON emails",
       "CREATE INDEX IF NOT EXISTS ON triage(thread_id, account)",
       "CREATE INDEX IF NOT EXISTS ON triage(bead_id)" >>

\* Schema: the DDL of the current (v2) store.
Schema ==
    << "CREATE TABLE IF NOT EXISTS emails",
       "CREATE TABLE IF NOT EXISTS triage",
       "CREATE INDEX IF NOT EXISTS ON emails",
       "CREATE INDEX IF NOT EXISTS ON emails",
       "CREATE INDEX IF NOT EXISTS ON emails",
       "CREATE INDEX IF NOT EXISTS ON triage(thread_id, account)",
       "CREATE INDEX IF NOT EXISTS ON triage(bead_id)" >>

\* MigrationV2: the script that turns the fat triage relation into the slim one.
MigrationV2 ==
    << "ALTER TABLE triage RENAME TO triage_old",
       "CREATE TABLE IF NOT EXISTS triage",
       "CREATE INDEX IF NOT EXISTS ON triage(thread_id, account)",
       "CREATE INDEX IF NOT EXISTS ON triage(bead_id)",
       "INSERT INTO triage SELECT FROM triage_old WHERE status = 'pending'",
       "DROP TABLE IF EXISTS triage_old",
       "DROP TABLE IF EXISTS triage_deps" >>

\* conn.Exec of a script: the statements run in order, each committed as it ends;
\* the first that fails ends the run. failAt names the statement the engine fails
\* at for a reason of its own (I/O error, full disk, crash); 0 is none.
RECURSIVE ExecFrom(_, _, _, _)
ExecFrom(script, k, db, failAt) ==
    IF k > Len(script) THEN [ok |-> TRUE, db |-> db, at |-> 0]
    ELSE IF k = failAt THEN [ok |-> FALSE, db |-> db, at |-> k]
    ELSE LET r == Exec(script[k], db) IN
         IF r.ok THEN ExecFrom(script, k + 1, r.db, failAt)
         ELSE [ok |-> FALSE, db |-> db, at |-> k]

ExecScript(script, db, failAt) == ExecFrom(script, 1, db, failAt)

\* The triage relation on disk has the v1 column shape (it has an action column).
NeedsMigration(db) == "triage" \in db.tables /\ db.shape = "v1"

\* What Open runs: the migration when the store needs it, then the schema.
OpenScript(db) == IF NeedsMigration(db) THEN MigrationV2 \o Schema ELSE Schema

\* Open whose migration starts the store afresh, messages included.
OpenAfresh(failAt) ==
    /\ Counted
    /\ failAt \in 0..Len(OpenScript(DB))
    /\ \E r \in {ExecScript(OpenScript(DB), DB, failAt)} :
           /\ tables' = r.db.tables
           /\ triageShape' = r.db.shape
           /\ triage' = r.db.triage
           /\ triage_old' = r.db.old
           /\ triage_deps' = r.db.deps
           /\ upgraded' = TRUE
           /\ v1Rows' = IF NeedsMigration(DB) THEN triage ELSE v1Rows
           /\ last' = [op |-> "Open", key |-> NeedsMigration(DB), ok |-> r.ok, out |-> NULL]
           /\ emails' = IF NeedsMigration(DB) THEN {} ELSE emails
           /\ UNCHANGED <<issues, now, firstInsert, procs>>

\* Open(dbPath): on an error the connection is closed and no store is returned.
Open(failAt) ==
    /\ Counted
    /\ failAt \in 0..Len(OpenScript(DB))
    /\ \E r \in {ExecScript(OpenScript(DB), DB, failAt)} :
           /\ tables' = r.db.tables
           /\ triageShape' = r.db.shape
           /\ triage' = r.db.triage
           /\ triage_old' = r.db.old
           /\ triage_deps' = r.db.deps
           /\ upgraded' = TRUE
           /\ v1Rows' = IF NeedsMigration(DB) THEN triage ELSE v1Rows
           /\ last' = [op |-> "Open", key |-> NeedsMigration(DB), ok |-> r.ok, out |-> NULL]
           /\ UNCHANGED <<emails, issues, now, firstInsert, procs>>

\* ------------------------------------------------------- triage ledger, v2

\* A v2 row (a ref): [thread_id, account, bead_id, created_at].

\* The v2 program works on a store whose triage relation has the v2 shape.
V2Store == {"emails", "triage"} \subseteq tables /\ triageShape = "v2"

HasTriageRef(threadID, account) == TriageOf(threadID, account) # {}
GetTriageRef(threadID, account) == CHOOSE r \in TriageOf(threadID, account) : TRUE

\* UpsertTriageRef: the ref of the pair gets the bead ID (and the time of the
\* write, by which sync marks a notification as sent), or a new ref is inserted.
UpsertTriageRef(rows, threadID, account, beadID, at) ==
    {r \in rows : ~(r.thread_id = threadID /\ r.account = account)}
        \cup {[thread_id |-> threadID, account |-> account,
               bead_id |-> beadID, created_at |-> at]}

\* DeleteTriageRef that deletes by the account of the ref that has the bead ID.
DeleteAccountRefs(rows, beadID) ==
    {r \in rows : ~\E x \in rows : x.bead_id = beadID /\ x.account = r.account}

\* DeleteTriageRef: DELETE FROM triage WHERE bead_id = ?.
DeleteTriageRef(rows, beadID) == {r \in rows : r.bead_id # beadID}

\* LegacyTriageRefs: the refs whose bead_id still is a migration placeholder.
LegacyTriageRefs(rows) == {r \in rows : HasPrefix(r.bead_id, LegacyPrefix)}

\* TriagedCount: the number of refs in the store.
TriagedCount == Cardinality(triage)

\* UntriagedThreads on the v2 shape: the groups of emails that have no ref.
UntriagedThreadsV2(account) ==
    {p \in EmailThreads :
        /\ (account = "" \/ p[2] = account)
        /\ ~HasTriageRef(p[1], p[2])}

\* mb untriaged, on whichever shape the store has.
Untriaged ==
    IF triageShape = "v1" THEN UntriagedThreads("") ELSE UntriagedThreadsV2("")

\* ------------------------------------------------------------- the tracker

\* beads.Create: the tracker names the new issue; it is open.
FreshBead(iss) == CHOOSE id \in BeadIDs : id \notin DOMAIN iss
CanCreate(iss) == \E id \in BeadIDs : id \notin DOMAIN iss
Create(iss) == (FreshBead(iss) :> "open") @@ iss

\* beads.Close: an error when the tracker knows no such issue; closing an issue
\* that is closed already succeeds or fails as the tracker decides (recloseOk).
CloseOk(iss, beadID, recloseOk) ==
    /\ beadID \in DOMAIN iss
    /\ (iss[beadID] = "open" \/ recloseOk)
Close(iss, beadID) == [iss EXCEPT ![beadID] = "closed"]

\* beads.Update: an error when the tracker knows no such issue.
UpdateOk(iss, beadID) == beadID \in DOMAIN iss

\* PriorityToBeads: the argument of bd's -p for a mailbeads priority.
PriorityToBeads(mbPriority) ==
    CASE mbPriority = "high" -> "1"
      [] mbPriority = "medium" -> "2"
      [] mbPriority = "low" -> "3"
      [] mbPriority = "spam" -> "4"
      [] OTHER -> "2"

\* PriorityFromBeads without its case 0.
PriorityFromBeadsNoP0(bdPriority) ==
    CASE bdPriority = 1 -> "high"
      [] bdPriority = 2 -> "medium"
      [] bdPriority = 3 -> "low"
      [] bdPriority = 4 -> "spam"
      [] OTHER -> "medium"

\* PriorityFromBeads: the mailbeads priority for the number of an issue.
PriorityFromBeads(bdPriority) ==
    CASE bdPriority = 0 -> "high"
      [] bdPriority = 1 -> "high"
      [] bdPriority = 2 -> "medium"
      [] bdPriority = 3 -> "low"
      [] bdPriority = 4 -> "spam"
      [] OTHER -> "medium"

\* The tracker takes the priority as a decimal numeral on its command line and
\* reports it as the number (Issue.Priority is an int in the JSON it prints).
Numerals == <<"0", "1", "2", "3", "4", "5", "6", "7", "8", "9">>
IssuePriority(arg) == CHOOSE n \in 0..9 : Numerals[n + 1] = arg

\* The two mappings applied to an input; they read and change nothing.
MapToBeads(mbPriority) ==
    /\ Counted
    /\ last' = [op |-> "PriorityToBeads", key |-> mbPriority, ok |-> TRUE,
                out |-> PriorityToBeads(mbPriority)]
    /\ UNCHANGED <<emails, storeVars, issues, upgraded, now, firstInsert, v1Rows, procs>>

MapFromBeads(bdPriority) ==
    /\ Counted
    /\ last' = [op |-> "PriorityFromBeads", key |-> bdPriority, ok |-> TRUE,
                out |-> PriorityFromBeads(bdPriority)]
    /\ UNCHANGED <<emails, storeVars, issues, upgraded, now, firstInsert, v1Rows, procs>>

\* ------------------------------------------------- the v2 program's commands

v2Frame == <<emails, tables, triageShape, triage_old, triage_deps, upgraded,
             now, firstInsert, v1Rows, procs>>

IsValidPriority(p) == p \in ValidPriorities

\* mb triage without the checks of --action and --priority.
TriageOutcomeUnchecked(threadID, accountArg, priority, action, available) ==
    LET accounts == ThreadAccounts(threadID)
        account == IF accountArg # "" \/ ~available THEN accountArg
                   ELSE IF Cardinality(accounts) = 1 THEN CHOOSE a \in accounts : TRUE
                   ELSE ""
        out(e, b, c) == [err |-> e, account |-> account, beadID |-> b, created |-> c,
                         listed |-> IF e = "multiple accounts" THEN accounts ELSE {}] IN
    IF ~available THEN out("bd not found", "", FALSE)
    ELSE IF accountArg = "" /\ accounts = {} THEN out("thread not found", "", FALSE)
    ELSE IF accountArg = "" /\ Cardinality(accounts) > 1
         THEN out("multiple accounts", "", FALSE)
    ELSE IF ~HasThread(threadID, account) THEN out("thread not found in account", "", FALSE)
    ELSE IF HasTriageRef(threadID, account)
         THEN LET existing == GetTriageRef(threadID, account) IN
              IF UpdateOk(issues, existing.bead_id)
              THEN out("", existing.bead_id, FALSE)
              ELSE out("update beads issue", existing.bead_id, FALSE)
    ELSE IF CanCreate(issues) THEN out("", FreshBead(issues), TRUE)
    ELSE out("create beads issue", "", FALSE)

\* mb triage without its ThreadInfo lookup: a thread with no message under the
\* account is triaged like any other.
TriageOutcomeAnyThread(threadID, accountArg, priority, action, available) ==
    LET accounts == ThreadAccounts(threadID)
        account == IF accountArg # "" \/ ~available THEN accountArg
                   ELSE IF Cardinality(accounts) = 1 THEN CHOOSE a \in accounts : TRUE
                   ELSE ""
        out(e, b, c) == [err |-> e, account |-> account, beadID |-> b, created |-> c,
                         listed |-> IF e = "multiple accounts" THEN accounts ELSE {}] IN
    IF ~available THEN out("bd not found", "", FALSE)
    ELSE IF accountArg = "" /\ accounts = {} THEN out("thread not found", "", FALSE)
    ELSE IF accountArg = "" /\ Cardinality(accounts) > 1
         THEN out("multiple accounts", "", FALSE)
    ELSE IF action = "" THEN out("action required", "", FALSE)
    ELSE IF priority # "" /\ ~IsValidPriority(priority) THEN out("invalid priority", "", FALSE)
    ELSE IF HasTriageRef(threadID, account)
         THEN LET existing == GetTriageRef(threadID, account) IN
              IF UpdateOk(issues, existing.bead_id)
              THEN out("", existing.bead_id, FALSE)
              ELSE out("update beads issue", existing.bead_id, FALSE)
    ELSE IF CanCreate(issues) THEN out("", FreshBead(issues), TRUE)
    ELSE out("create beads issue", "", FALSE)

\* mb triage without its lookup of the existing ref: it always creates an issue.
TriageOutcomeAlwaysCreate(threadID, accountArg, priority, action, available) ==
    LET accounts == ThreadAccounts(threadID)
        account == IF accountArg # "" \/ ~available THEN accountArg
                   ELSE IF Cardinality(accounts) = 1 THEN CHOOSE a \in accounts : TRUE
                   ELSE ""
        out(e, b, c) == [err |-> e, account |-> account, beadID |-> b, created |-> c,
                         listed |-> IF e = "multiple accounts" THEN accounts ELSE {}] IN
    IF ~available THEN out("bd not found", "", FALSE)
    ELSE IF accountArg = "" /\ accounts = {} THEN out("thread not found", "", FALSE)
    ELSE IF accountArg = "" /\ Cardinality(accounts) > 1
         THEN out("multiple accounts", "", FALSE)
    ELSE IF action = "" THEN out("action required", "", FALSE)
    ELSE IF priority # "" /\ ~IsValidPriority(priority) THEN out("invalid priority", "", FALSE)
    ELSE IF ~HasThread(threadID, account) THEN out("thread not found in account", "", FALSE)
    ELSE IF CanCreate(issues) THEN out("", FreshBead(issues), TRUE)
    ELSE out("create beads issue", "", FALSE)

\* The outcome of mb triage: [err, account, beadID, created, listed]; err = "" is
\* success, account is the account the command works on once it has settled it,
\* listed are the accounts the ambiguous-account error names.
\* available is beads.Available(): whether the bd binary is on PATH at this run.
TriageOutcome(threadID, accountArg, priority, action, available) ==
    LET accounts == ThreadAccounts(threadID)
        account == IF accountArg # "" \/ ~available THEN accountArg
                   ELSE IF Cardinality(accounts) = 1 THEN CHOOSE a \in accounts : TRUE
                   ELSE ""
        out(e, b, c) == [err |-> e, account |-> account, beadID |-> b, created |-> c,
                         listed |-> IF e = "multiple accounts" THEN accounts ELSE {}] IN
    IF ~available THEN out("bd not found", "", FALSE)
    ELSE IF accountArg = "" /\ accounts = {} THEN out("thread not found", "", FALSE)
    ELSE IF accountArg = "" /\ Cardinality(accounts) > 1
         THEN out("multiple accounts", "", FALSE)
    ELSE IF action = "" THEN out("action required", "", FALSE)
    ELSE IF priority # "" /\ ~IsValidPriority(priority) THEN out("invalid priority", "", FALSE)
    ELSE IF ~HasThread(threadID, account) THEN out("thread not found in account", "", FALSE)
    ELSE IF HasTriageRef(threadID, account)
         THEN LET existing == GetTriageRef(threadID, account) IN
              IF UpdateOk(issues, existing.bead_id)
              THEN out("", existing.bead_id, FALSE)
              ELSE out("update beads issue", existing.bead_id, FALSE)
    ELSE IF CanCreate(issues) THEN out("", FreshBead(issues), TRUE)
    ELSE out("create beads issue", "", FALSE)

\* mb triage THREAD_ID [--account A] [--priority P] --action TEXT
TriageCmd(threadID, accountArg, priority, action, available) ==
    /\ Counted
    /\ V2Store
    /\ \E o \in {TriageOutcome(threadID, accountArg, priority, action, available)} :
           /\ issues' = IF o.err = "" /\ o.created THEN Create(issues) ELSE issues
           /\ triage' = IF o.err = "" /\ o.created
                        THEN UpsertTriageRef(triage, threadID, o.account, o.beadID, Now)
                        ELSE triage
           /\ last' = [op |-> "triage", key |-> Pair(threadID, o.account), ok |-> (o.err = ""),
                       out |-> o,
                       in |-> [account |-> accountArg, priority |-> priority,
                               action |-> action, bd |-> available]]
           /\ UNCHANGED v2Frame

\* The issues mb triage runs bd update on: the bead ID of the existing ref, whenever
\* the command gets as far as finding one (the update is run before its result is
\* known, so the ID is the same when it fails).
TriageUpdates(o) == IF o.beadID # "" /\ ~o.created THEN {o.beadID} ELSE {}

\* The loop of mb done / mb dismiss that deletes the ref of an ID whether or not its
\* close succeeded.
RECURSIVE CloseLoopDeleteAnyway(_, _, _, _, _, _)
CloseLoopDeleteAnyway(args, k, iss, rows, closed, recloseOk) ==
    IF k > Len(args) THEN [issues |-> iss, triage |-> rows, closed |-> closed]
    ELSE IF CloseOk(iss, args[k], recloseOk)
         THEN CloseLoopDeleteAnyway(args, k + 1, Close(iss, args[k]),
                                    DeleteTriageRef(rows, args[k]), closed \cup {args[k]},
                                    recloseOk)
         ELSE CloseLoopDeleteAnyway(args, k + 1, iss, DeleteTriageRef(rows, args[k]), closed,
                                    recloseOk)

\* The loop of mb done / mb dismiss over its arguments: [issues, triage, closed].
RECURSIVE CloseLoop(_, _, _, _, _, _)
CloseLoop(args, k, iss, rows, closed, recloseOk) ==
    IF k > Len(args) THEN [issues |-> iss, triage |-> rows, closed |-> closed]
    ELSE IF CloseOk(iss, args[k], recloseOk)
         THEN CloseLoop(args, k + 1, Close(iss, args[k]),
                        DeleteTriageRef(rows, args[k]), closed \cup {args[k]}, recloseOk)
         ELSE CloseLoop(args, k + 1, iss, rows, closed, recloseOk)

\* mb done / mb dismiss without the check of beads.Available(): bd is run, found
\* missing at the first close, and the ref of every argument is deleted all the same.
DoneCmdUnguarded(cmd, args, recloseOk, available) ==
    /\ Counted
    /\ V2Store
    /\ cmd \in {"done", "dismiss"}
    /\ \E r \in {CloseLoop(args, 1, issues, triage, {}, recloseOk)} :
           /\ issues' = IF available THEN r.issues ELSE issues
           /\ triage' = IF available THEN r.triage
                        ELSE {x \in triage : \A k \in 1..Len(args) : x.bead_id # args[k]}
           /\ last' = [op |-> cmd, key |-> NULL, ok |-> available,
                       out |-> IF available THEN r.closed ELSE {},
                       in |-> [bd |-> available]]
           /\ UNCHANGED v2Frame

\* mb done BEAD_ID... and mb dismiss BEAD_ID... (they differ in the close reason);
\* both return nil once the tracker binary was found.
DoneCmd(cmd, args, recloseOk, available) ==
    /\ Counted
    /\ V2Store
    /\ cmd \in {"done", "dismiss"}
    /\ \E r \in {CloseLoop(args, 1, issues, triage, {}, recloseOk)} :
           /\ issues' = IF available THEN r.issues ELSE issues
           /\ triage' = IF available THEN r.triage ELSE triage
           /\ last' = [op |-> cmd, key |-> NULL, ok |-> available,
                       out |-> IF available THEN r.closed ELSE {},
                       in |-> [bd |-> available]]
           /\ UNCHANGED v2Frame

\* mb done / mb dismiss in a run in which the store's DELETE fails (the database is
\* locked, the disk is full): DeleteTriageRef changes nothing, the command takes no
\* notice of what it returns and goes on; the issues are closed and the refs remain.
DoneStoreFails(cmd, args, recloseOk) ==
    /\ Counted
    /\ V2Store
    /\ cmd \in {"done", "dismiss"}
    /\ \E r \in {CloseLoop(args, 1, issues, triage, {}, recloseOk)} :
           /\ issues' = r.issues
           /\ triage' = triage
           /\ last' = [op |-> cmd, key |-> NULL, ok |-> TRUE, out |-> r.closed,
                       in |-> [bd |-> TRUE]]
           /\ UNCHANGED v2Frame

\* mb triage in a run in which the store's write of the ref fails after bd create
\* succeeded: the issue exists and is open, no ref was written, and the command
\* returns "save triage ref".
TriageStoreFails(threadID, accountArg, priority, action) ==
    /\ Counted
    /\ V2Store
    /\ \E o \in {TriageOutcome(threadID, accountArg, priority, action, TRUE)} :
           /\ o.err = "" /\ o.created
           /\ issues' = Create(issues)
           /\ triage' = triage
           /\ last' = [op |-> "triage", key |-> Pair(threadID, o.account), ok |-> FALSE,
                       out |-> [o EXCEPT !.err = "save triage ref"],
                       in |-> [account |-> accountArg, priority |-> priority,
                               action |-> action, bd |-> TRUE]]
           /\ UNCHANGED v2Frame

\* mb triage as a process of its own: the command split at its calls to the store
\* and to the tracker, so that the steps of two invocations can interleave. The
\* invocation names its account and its action, and bd is on PATH.
procFrame == <<emails, tables, triageShape, triage_old, triage_deps, upgraded, now, last,
               ops, firstInsert, v1Rows>>

\* store.GetTriageRef of a thread that has mail: the invocation goes on to update
\* the issue of the ref it found, or to create one.
ProcLookup(p, threadID, account) ==
    /\ V2Store
    /\ procs[p].pc = "none"
    /\ HasThread(threadID, account)
    /\ procs' = [procs EXCEPT ![p] =
                    [NotRunning EXCEPT
                        !.pc = IF HasTriageRef(threadID, account) THEN "update" ELSE "create",
                        !.thread = threadID, !.account = account,
                        !.beadID = IF HasTriageRef(threadID, account)
                                   THEN GetTriageRef(threadID, account).bead_id ELSE ""]]
    /\ UNCHANGED <<procFrame, triage, issues>>

\* beads.Update of the issue of the existing ref; the command ends.
ProcUpdate(p) ==
    /\ procs[p].pc = "update"
    /\ procs' = [procs EXCEPT ![p].pc = "exit",
                              ![p].err = IF UpdateOk(issues, procs[p].beadID) THEN ""
                                         ELSE "update beads issue"]
    /\ UNCHANGED <<procFrame, triage, issues>>

\* beads.Create: the new issue, or the end of the command when bd fails.
ProcCreate(p) ==
    /\ procs[p].pc = "create"
    /\ IF CanCreate(issues)
       THEN /\ issues' = Create(issues)
            /\ procs' = [procs EXCEPT ![p].pc = "save", ![p].beadID = FreshBead(issues),
                                      ![p].created = TRUE]
       ELSE /\ issues' = issues
            /\ procs' = [procs EXCEPT ![p].pc = "exit", ![p].err = "create beads issue"]
    /\ UNCHANGED <<procFrame, triage>>

\* The last step with the error of store.UpsertTriageRef dropped.
ProcSaveIgnoringError(p, engineOk) ==
    /\ procs[p].pc = "save"
    /\ triage' = IF engineOk
                 THEN UpsertTriageRef(triage, procs[p].thread, procs[p].account,
                                      procs[p].beadID, Now)
                 ELSE triage
    /\ procs' = [procs EXCEPT ![p].pc = "exit", ![p].wrote = engineOk]
    /\ UNCHANGED <<procFrame, issues>>

\* store.UpsertTriageRef of the new issue: the engine runs the write, or fails it
\* (the store is locked by the other process) and the command returns
\* "save triage ref".
ProcSave(p, engineOk) ==
    /\ procs[p].pc = "save"
    /\ triage' = IF engineOk
                 THEN UpsertTriageRef(triage, procs[p].thread, procs[p].account,
                                      procs[p].beadID, Now)
                 ELSE triage
    /\ procs' = [procs EXCEPT ![p].pc = "exit", ![p].wrote = engineOk,
                              ![p].err = IF engineOk THEN "" ELSE "save triage ref"]
    /\ UNCHANGED <<procFrame, issues>>

\* main: the exit status of the process, from what the command's RunE returned
\* (ok is "it returned nil").
ExitCode(ok) == IF ok THEN 0 ELSE 1

\* mb migrate that ends after the first legacy ref.
MigrateFirstOnly(refs, iss, rows) ==
    IF refs = {} THEN [issues |-> iss, triage |-> rows]
    ELSE LET ref == CHOOSE r \in refs : TRUE IN
         IF HasThread(ref.thread_id, ref.account) /\ CanCreate(iss)
         THEN [issues |-> Create(iss),
               triage |-> UpsertTriageRef(rows, ref.thread_id, ref.account, FreshBead(iss), Now)]
         ELSE [issues |-> iss, triage |-> rows]

\* The loop of mb migrate over the legacy refs: [issues, triage].
RECURSIVE MigrateLoop(_, _, _)
MigrateLoop(refs, iss, rows) ==
    IF refs = {} THEN [issues |-> iss, triage |-> rows]
    ELSE LET ref == CHOOSE r \in refs : TRUE IN
         IF HasThread(ref.thread_id, ref.account) /\ CanCreate(iss)
         THEN MigrateLoop(refs \ {ref}, Create(iss),
                          UpsertTriageRef(rows, ref.thread_id, ref.account, FreshBead(iss), Now))
         ELSE MigrateLoop(refs \ {ref}, iss, rows)

\* mb migrate without the check of --dry-run in its loop.
MigrateCmdAlways(dryRun, available) ==
    /\ Counted
    /\ V2Store
    /\ \E r \in {MigrateLoop(LegacyTriageRefs(triage), issues, triage)} :
           /\ issues' = IF available THEN r.issues ELSE issues
           /\ triage' = IF available THEN r.triage ELSE triage
           /\ last' = [op |-> "migrate", key |-> dryRun, ok |-> available,
                       out |-> Cardinality(LegacyTriageRefs(triage)),
                       in |-> [bd |-> available]]
           /\ UNCHANGED v2Frame

\* mb migrate [--dry-run]
MigrateCmd(dryRun, available) ==
    /\ Counted
    /\ V2Store
    /\ \E r \in {MigrateLoop(LegacyTriageRefs(triage), issues, triage)},
          act \in {available /\ ~dryRun} :
           /\ issues' = IF act THEN r.issues ELSE issues
           /\ triage' = IF act THEN r.triage ELSE triage
           /\ last' = [op |-> "migrate", key |-> dryRun, ok |-> available,
                       out |-> Cardinality(LegacyTriageRefs(triage)),
                       in |-> [bd |-> available]]
           /\ UNCHANGED v2Frame

\* The loop of mb migrate in a run in which the store's write of the ref fails: an
\* issue is created for every legacy ref with a thread, the error is printed, and
\* the loop continues with the refs as they were.
RECURSIVE MigrateLoopStoreFails(_, _, _)
MigrateLoopStoreFails(refs, iss, rows) ==
    IF refs = {} THEN [issues |-> iss, triage |-> rows]
    ELSE LET ref == CHOOSE r \in refs : TRUE IN
         IF HasThread(ref.thread_id, ref.account) /\ CanCreate(iss)
         THEN MigrateLoopStoreFails(refs \ {ref}, Create(iss), rows)
         ELSE MigrateLoopStoreFails(refs \ {ref}, iss, rows)

\* mb migrate in such a run.
MigrateStoreFails ==
    /\ Counted
    /\ V2Store
    /\ \E r \in {MigrateLoopStoreFails(LegacyTriageRefs(triage), issues, triage)} :
           /\ issues' = r.issues
           /\ triage' = r.triage
           /\ last' = [op |-> "migrate", key |-> FALSE, ok |-> TRUE,
                       out |-> Cardinality(LegacyTriageRefs(triage)),
                       in |-> [bd |-> TRUE]]
           /\ UNCHANGED v2Frame

\* mb show that takes the first account of a thread found under several.
ShowOutcomeFirstAccount(threadID, accountArg) ==
    LET accounts == ThreadAccounts(threadID)
        account == IF accountArg # "" THEN accountArg
                   ELSE IF accounts # {} THEN CHOOSE a \in accounts : TRUE
                   ELSE ""
        out(e) == [err |-> e, account |-> account, listed |-> {}] IN
    IF accountArg = "" /\ accounts = {} THEN out("thread not found")
    ELSE IF ThreadEmails(threadID, account) = {} THEN out("no emails found")
    ELSE out("")

\* The outcome of mb show: [err, account, listed], as for mb triage.
ShowOutcome(threadID, accountArg) ==
    LET accounts == ThreadAccounts(threadID)
        account == IF accountArg # "" THEN accountArg
                   ELSE IF Cardinality(accounts) = 1 THEN CHOOSE a \in accounts : TRUE
                   ELSE ""
        out(e) == [err |-> e, account |-> account,
                   listed |-> IF e = "multiple accounts" THEN accounts ELSE {}] IN
    IF accountArg = "" /\ accounts = {} THEN out("thread not found")
    ELSE IF accountArg = "" /\ Cardinality(accounts) > 1 THEN out("multiple accounts")
    ELSE IF ThreadEmails(threadID, account) = {} THEN out("no emails found")
    ELSE out("")

\* mb show THREAD_ID [--account A]: it reads the store and the tracker and
\* changes neither.
ShowCmd(threadID, accountArg) ==
    /\ Counted
    /\ V2Store
    /\ \E o \in {ShowOutcome(threadID, accountArg)} :
           last' = [op |-> "show", key |-> Pair(threadID, o.account), ok |-> (o.err = ""),
                    out |-> o, in |-> [account |-> accountArg]]
    /\ UNCHANGED <<emails, storeVars, issues, upgraded, now, firstInsert, v1Rows, procs>>

\* --------------------------------------------------------------------- sync

\* The provider's mailboxes: each message under one ID, and a later message of
\* account a2.
Mailbox ==
    {m \in Messages : \A x \in Messages : x.id = m.id => m.date <= x.date}
        \cup {[id |-> "m5", account |-> "a2", thread_id |-> "t1", date |-> 2, subject |-> "s1"]}

\* gmail.Search: the messages of the account that the provider holds at this time
\* and hands out in full (a message whose ReadFull fails is passed over by the insert
\* loop, as if the search had not returned it).
Search(account, at) == {m \in Mailbox : m.account = account /\ m.date <= at}

\* The outcomes of the steps of SyncAccount that can fail: "" is none.
SyncFailures == {"", "credentials not found", "auth failed", "search failed"}

\* DiscoverAccounts: the account directories that hold credentials, sorted.
DiscoverAccounts == <<"a1", "a2">>

\* ThreadsWithNewEmails with >= for >.
ThreadsFetchedSince(mail, refs) ==
    {r \in refs :
        /\ \E e \in mail : e.thread_id = r.thread_id /\ e.account = r.account
        /\ Max({e.fetched_at : e \in {x \in mail : x.thread_id = r.thread_id
                                               /\ x.account = r.account}}) >= r.created_at}

\* ThreadsWithNewEmails: the refs of the threads whose most recent fetch is newer
\* than the ref's created_at.
ThreadsWithNewEmails(mail, refs) ==
    {r \in refs :
        /\ \E e \in mail : e.thread_id = r.thread_id /\ e.account = r.account
        /\ Max({e.fetched_at : e \in {x \in mail : x.thread_id = r.thread_id
                                               /\ x.account = r.account}}) > r.created_at}

\* beads.Comment: an error when bd fails or knows no such issue.
CommentOk(iss, beadID, bdOk) == bdOk /\ beadID \in DOMAIN iss

\* The issues notifyNewEmails runs bd comment on: those of the threads with new
\* mail whose ref is past the check for the placeholder prefix.
NotifyComments(mail, refs) ==
    {t.bead_id : t \in {x \in ThreadsWithNewEmails(mail, refs) :
                            ~HasPrefix(x.bead_id, LegacyPrefix)}}

\* The loop of notifyNewEmails without its UpsertTriageRef after a comment.
NotifyLoopUnmarked(threads, refs, iss, bdOk, at) == refs

\* The loop of notifyNewEmails over the threads with new mail: the refs, with
\* created_at moved to the time of the write for every thread whose issue got its
\* comment; placeholders of the migration are skipped.
RECURSIVE NotifyLoop(_, _, _, _, _)
NotifyLoop(threads, refs, iss, bdOk, at) ==
    IF threads = {} THEN refs
    ELSE LET t == CHOOSE r \in threads : TRUE IN
         IF HasPrefix(t.bead_id, LegacyPrefix) \/ ~CommentOk(iss, t.bead_id, bdOk)
         THEN NotifyLoop(threads \ {t}, refs, iss, bdOk, at)
         ELSE NotifyLoop(threads \ {t},
                         UpsertTriageRef(refs, t.thread_id, t.account, t.bead_id, at),
                         iss, bdOk, at)

notifyNewEmails(mail, refs, iss, bdOk, at) ==
    NotifyLoop(ThreadsWithNewEmails(mail, refs), refs, iss, bdOk, at)

\* The insert loop of SyncAccount: every new message is stamped with one fetch time.
RECURSIVE InsertAll(_, _, _)
InsertAll(mail, new, at) ==
    IF new = {} THEN mail
    ELSE LET m == CHOOSE x \in new : TRUE IN
         InsertAll(InsertOrIgnore(mail, [id |-> m.id, account |-> m.account,
                                         thread_id |-> m.thread_id, date |-> m.date,
                                         subject |-> m.subject, fetched_at |-> at]),
                   new \ {m}, at)

\* SyncAccount without its EmailExists filter: every search result is inserted.
SyncAccountUnfiltered(mail, refs, iss, account, fail, available, bdOk, at) ==
    LET results == Search(account, at)
        newEmails == results
        stored == InsertAll(mail, newEmails, at)
        fetched == Cardinality(newEmails) IN
    IF fail # ""
    THEN [emails |-> mail, triage |-> refs, err |-> "",
          result |-> [account |-> account, fetched |-> 0, skipped |-> 0, error |-> fail]]
    ELSE [emails |-> stored,
          triage |-> IF fetched > 0 /\ available
                     THEN notifyNewEmails(stored, refs, iss, bdOk, at) ELSE refs,
          err |-> "",
          result |-> [account |-> account, fetched |-> fetched,
                      skipped |-> Cardinality(results) - Cardinality(newEmails),
                      error |-> ""]]

\* SyncAccount: [emails, triage, result, err]. err is the error it returns next to
\* the result; a step that fails is reported in result.error. Fetched is counted
\* up once for every InsertEmail that returns no error, and INSERT OR IGNORE returns
\* none for a new row and for an ignored one: it counts the messages of newEmails.
SyncAccount(mail, refs, iss, account, fail, available, bdOk, at) ==
    LET results == Search(account, at)
        newEmails == {r \in results : ~\E e \in mail : e.id = r.id}
        stored == InsertAll(mail, newEmails, at)
        fetched == Cardinality(newEmails) IN
    IF fail # ""
    THEN [emails |-> mail, triage |-> refs, err |-> "",
          result |-> [account |-> account, fetched |-> 0, skipped |-> 0, error |-> fail]]
    ELSE [emails |-> stored,
          triage |-> IF fetched > 0 /\ available
                     THEN notifyNewEmails(stored, refs, iss, bdOk, at) ELSE refs,
          err |-> "",
          result |-> [account |-> account, fetched |-> fetched,
                      skipped |-> Cardinality(results) - Cardinality(newEmails),
                      error |-> ""]]

\* The loop of mb sync in which the first account that fails ends the run.
RECURSIVE SyncLoopAbort(_, _, _, _, _, _, _, _, _, _)
SyncLoopAbort(accounts, k, mail, refs, summary, iss, fail, available, bdOk, at) ==
    IF k > Len(accounts) THEN [emails |-> mail, triage |-> refs, summary |-> summary, err |-> ""]
    ELSE LET r == SyncAccount(mail, refs, iss, accounts[k], fail[accounts[k]],
                              available, bdOk, at) IN
         IF r.result.error # ""
         THEN [emails |-> mail, triage |-> refs, summary |-> summary, err |-> r.result.error]
         ELSE SyncLoopAbort(accounts, k + 1, r.emails, r.triage, Append(summary, r.result),
                            iss, fail, available, bdOk, at)

\* The loop of mb sync over the accounts: [emails, triage, summary, err]. It
\* returns the error of SyncAccount, if any, and else appends the result.
RECURSIVE SyncLoop(_, _, _, _, _, _, _, _, _, _)
SyncLoop(accounts, k, mail, refs, summary, iss, fail, available, bdOk, at) ==
    IF k > Len(accounts) THEN [emails |-> mail, triage |-> refs, summary |-> summary, err |-> ""]
    ELSE LET r == SyncAccount(mail, refs, iss, accounts[k], fail[accounts[k]],
                              available, bdOk, at) IN
         IF r.err # ""
         THEN [emails |-> mail, triage |-> refs, summary |-> summary, err |-> r.err]
         ELSE SyncLoop(accounts, k + 1, r.emails, r.triage, Append(summary, r.result),
                       iss, fail, available, bdOk, at)

\* EmailCount: SELECT COUNT(*) FROM emails.
EmailCount == Cardinality(emails)

\* syncCmd: summary.TotalNew is the sum of result.Fetched over the accounts.
RECURSIVE TotalNew(_)
TotalNew(summary) ==
    IF summary = <<>> THEN 0 ELSE Head(summary).fetched + TotalNew(Tail(summary))

\* mb sync [--account A]: fail names, per account, the step of SyncAccount that
\* fails in this run; bdOk is whether bd comment succeeds.
SyncCmd(syncAccount, fail, available, bdOk) ==
    /\ Counted
    /\ V2Store
    /\ \E r \in {SyncLoop(IF syncAccount # "" THEN <<syncAccount>> ELSE DiscoverAccounts,
                          1, emails, triage, <<>>, issues, fail, available, bdOk, Now)} :
           /\ emails' = r.emails
           /\ triage' = r.triage
           /\ firstInsert' = [i \in {e.id : e \in r.emails} |->
                                 IF i \in DOMAIN firstInsert THEN firstInsert[i]
                                 ELSE CHOOSE e \in r.emails : e.id = i]
           /\ last' = [op |-> "sync", key |-> syncAccount, ok |-> (r.err = ""),
                       out |-> r.summary, fail |-> fail]
    /\ UNCHANGED <<tables, triageShape, triage_old, triage_deps, issues, upgraded, now, v1Rows, procs>>

\* ------------------------------------------------------- resolving an ID (v1)

\* Record IDs are lowercase hex strings of one length; a query is whatever the user
\* types: hex digits, an upper-case digit, the characters % and _.
HexChars == {"a", "1"}
QueryChars == HexChars \cup {"A", "%", "_"}

RECURSIVE StringsOfLen(_, _)
StringsOfLen(chars, n) ==
    IF n = 0 THEN {""} ELSE {c \o w : c \in chars, w \in StringsOfLen(chars, n - 1)}

\* What GenID can return.
GenIDs == StringsOfLen(HexChars, MaxIDLen)
Queries == UNION {StringsOfLen(QueryChars, n) : n \in 0..MaxIDLen}

StrHead(s) == SubSeq(s, 1, 1)
StrTail(s) == SubSeq(s, 2, Len(s))

\* ASCII case folding, as the LIKE operator applies it.
Fold(c) == IF c = "A" THEN "a" ELSE c

\* s LIKE pattern, in the SQL engine's default configuration: % matches any run of
\* characters, _ any one character, letters match without regard to case.
RECURSIVE Like(_, _)
Like(s, pattern) ==
    IF pattern = "" THEN s = ""
    ELSE IF StrHead(pattern) = "%"
         THEN \E k \in 0..Len(s) : Like(SubSeq(s, k + 1, Len(s)), StrTail(pattern))
    ELSE IF s = "" THEN FALSE
    ELSE IF StrHead(pattern) = "_" THEN Like(StrTail(s), StrTail(pattern))
    ELSE Fold(StrHead(s)) = Fold(StrHead(pattern)) /\ Like(StrTail(s), StrTail(pattern))

\* getTriageByExactID(id): the rows WHERE id = ?.
getTriageByExactID(rows, id) == {r \in rows : r.id = id}

\* The prefix query of GetTriageByID: the rows WHERE id LIKE id + "%".
PrefixMatches(rows, id) == {r \in rows : Like(r.id, id \o "%")}

\* GetTriageByID(id): [err, ids]; err = "" returns the one record named in ids, the
\* ambiguous error names the IDs in ids.
GetTriageByID(rows, id) ==
    IF getTriageByExactID(rows, id) # {}
    THEN [err |-> "", ids |-> {r.id : r \in getTriageByExactID(rows, id)}]
    ELSE LET matches == PrefixMatches(rows, id) IN
         IF matches = {} THEN [err |-> "not found", ids |-> {}]
         ELSE IF Cardinality(matches) = 1 THEN [err |-> "", ids |-> {r.id : r \in matches}]
         ELSE [err |-> "ambiguous ID", ids |-> {r.id : r \in matches}]

\* A lookup by ID; it reads the store and changes nothing.
Resolve(id) ==
    /\ V1Store
    /\ \E r \in {GetTriageByID(triage, id)} :
           last' = [op |-> "GetTriageByID", key |-> id, ok |-> r.err = "", out |-> r]
    /\ UNCHANGED <<emails, storeVars, issues, upgraded, now, ops, firstInsert, v1Rows, procs>>

\* ------------------------------------------------- the v1 lists and counts

\* The CASE of the ORDER BY clauses: a priority outside the four has no rank (NULL),
\* which sorts ahead of every rank.
PriorityRank(p) ==
    CASE p = PriorityHigh -> 0
      [] p = PriorityMedium -> 1
      [] p = PriorityLow -> 2
      [] p = PrioritySpam -> 3
      [] OTHER -> -1

\* ORDER BY CASE priority ... END, latest_date DESC.
TriageBefore(a, b) ==
    \/ PriorityRank(a.priority) < PriorityRank(b.priority)
    \/ /\ PriorityRank(a.priority) = PriorityRank(b.priority)
       /\ a.latest_date > b.latest_date

\* The WHERE clause of ListTriage: status = ? (or 'pending') unless includeAll, and
\* account LIKE '%' || account || '%' when an account is given.
ListTriageRows(status, account, includeAll) ==
    {r \in triage :
        /\ includeAll \/ r.status = (IF status # "" THEN status ELSE StatusPending)
        /\ account = "" \/ Like(r.account, "%" \o account \o "%")}

\* ListTriage(status, account, includeAll): the lists the query can return.
ListTriage(status, account, includeAll) ==
    LET rows == ListTriageRows(status, account, includeAll) IN
    Orderings(rows, {x \in rows \X rows : TriageBefore(x[1], x[2])})

\* SELECT status, COUNT(*) FROM triage GROUP BY status.
StatusGroups(rows) ==
    [s \in {r.status : r \in rows} |-> Cardinality({r \in rows : r.status = s})]

\* TriageCountByStatus without the four zeros its map starts from.
TriageCountOfGroups == StatusGroups(triage)

\* TriageCountByStatus: the map starts with the four statuses at 0 and takes the
\* count of every group.
TriageCountByStatus == StatusGroups(triage) @@ [s \in ValidStatuses |-> 0]

\* The most items the status summary puts in its next-actionable list.
ActionItemsCap == 5

FirstN(q, n) == IF Len(q) > n THEN SubSeq(q, 1, n) ELSE q

\* mb status (v1), the two lists of its output: high_priority and action_items as
\* --json prints them, next_up as the terminal prints the second under "Next Up".
\* The set holds one output for each order the two queries can return.
StatusV1(noReady) ==
    LET isHigh(t) == t.priority = PriorityHigh
        notSpam(t) == t.priority # PrioritySpam
        notHigh(t) == t.priority # PriorityHigh
        out(highItems, readyItems) ==
            LET actionItems == IF noReady THEN <<>>
                               ELSE FirstN(SelectSeq(readyItems, notSpam), ActionItemsCap) IN
            [high_priority |-> SelectSeq(highItems, isHigh),
             action_items |-> actionItems,
             next_up |-> SelectSeq(actionItems, notHigh)] IN
    {out(h, r) : h \in ListTriage(StatusPending, "", FALSE),
                 r \in Orderings(ReadyTriage,
                                 {x \in ReadyTriage \X ReadyTriage : TriageBefore(x[1], x[2])})}

\* ------------------------------------------------------------ specifications

\* A v1 store into which three threads of mail have been synced at time 1.
SyncedMail ==
    {[id |-> m.id, account |-> m.account, thread_id |-> m.thread_id, date |-> m.date,
      subject |-> m.subject, fetched_at |-> 1] :
        m \in {x \in Messages : x.date = 1}}

Init ==
    /\ emails = SyncedMail
    /\ tables = {"emails", "triage", "triage_deps"}
    /\ triageShape = "v1"
    /\ triage = {}
    /\ triage_old = {}
    /\ triage_deps = {}
    /\ issues = <<>>
    /\ upgraded = FALSE
    /\ now = 1
    /\ last = [op |-> "init", key |-> NULL, ok |-> TRUE, out |-> NULL]
    /\ ops = 0
    /\ firstInsert = [i \in {r.id : r \in SyncedMail} |-> CHOOSE r \in SyncedMail : r.id = i]
    /\ v1Rows = {}
    /\ procs = NoProcs

\* Runs of mb done / mb dismiss: <<command, issue IDs, whether bd closes an issue that
\* is already closed, whether bd is on PATH>>.  The IDs cover a tracked issue, two
\* issues, an unknown ID ahead of a tracked one, and a placeholder.
DoneRuns ==
    { <<"done", <<"bd-1">>, TRUE, TRUE>>, <<"dismiss", <<"bd-1">>, FALSE, TRUE>>,
      <<"done", <<"bd-1", "bd-2">>, TRUE, TRUE>>, <<"dismiss", <<"bd-9", "bd-1">>, TRUE, TRUE>>,
      <<"done", <<"legacy-r1">>, TRUE, TRUE>>, <<"done", <<"bd-1">>, TRUE, FALSE>> }

\* The mail that arrives after the first sync.
NewMail == {m \in Messages : m.date > 1}

\* Runs of mb triage: <<thread, --account, --priority, --action, whether bd is on PATH>>.
TriageRuns ==
    { <<"t1", "a1", PriorityLow, "reply", TRUE>>, <<"t1", "a2", PriorityLow, "reply", TRUE>>,
      <<"t2", "", "", "reply", TRUE>>, <<"t1", "", "", "reply", TRUE>>,
      <<"t2", "a1", "urgent", "reply", TRUE>>, <<"t2", "a1", PriorityLow, "", TRUE>>,
      <<"t2", "a1", PriorityLow, "reply", FALSE>> }

\* The store's whole life: the v1 program, the upgrade, the v2 program.
Next ==
    \/ \E m \in NewMail : InsertEmail(m)
    \/ \E t \in ThreadIDs, a \in Accounts : TriageV1(t, a, PriorityHigh)
    \/ \E id \in TriageIDs, st \in ValidStatuses : SetStatusV1(id, st)
    \/ \E f \in 0..(Len(MigrationV2) + 1) : Open(f)
    \/ \E x \in TriageRuns : TriageCmd(x[1], x[2], x[3], x[4], x[5])
    \/ \E x \in DoneRuns : DoneCmd(x[1], x[2], x[3], x[4])
    \/ \E dry \in BOOLEAN, av \in BOOLEAN : MigrateCmd(dry, av)
    \/ Tick

Spec == Init /\ [][Next]_vars

\* What a user may type for a record ID without typing all of it.
IDPrefixes == {"r"}

\* The v1 program alone, with dependencies and snoozing.
NextV1 ==
    \/ \E t \in ThreadIDs, a \in Accounts : TriageV1(t, a, PriorityHigh)
    \/ \E id \in TriageIDs \cup IDPrefixes, st \in ValidStatuses : SetStatusV1(id, st)
    \/ \E id \in TriageIDs, u \in 1..MaxTime : SnoozeV1(id, u)
    \/ \E id \in TriageIDs, d \in TriageIDs : AddDepV1(id, d)
    \/ Tick

SpecV1 == Init /\ [][NextV1]_vars

\* The v1 program as mail keeps arriving: threads are triaged, and grow after
\* they were triaged.
NextMail ==
    \/ \E m \in NewMail : InsertEmail(m)
    \/ \E t \in ThreadIDs, a \in Accounts : TriageV1(t, a, PriorityHigh)
    \/ Tick

SpecMail == Init /\ [][NextMail]_vars

\* A v2 store after the first sync.
InitV2 ==
    /\ emails = SyncedMail
    /\ tables = {"emails", "triage"}
    /\ triageShape = "v2"
    /\ triage = {}
    /\ triage_old = {}
    /\ triage_deps = {}
    /\ issues = <<>>
    /\ upgraded = TRUE
    /\ now = 1
    /\ last = [op |-> "init", key |-> NULL, ok |-> TRUE, out |-> NULL]
    /\ ops = 0
    /\ firstInsert = [i \in {r.id : r \in SyncedMail} |-> CHOOSE r \in SyncedMail : r.id = i]
    /\ v1Rows = {}
    /\ procs = NoProcs

\* The v1 record of thread (t1, a1), pending, that a migrated store came from.
MigratedRecord ==
    UpsertInsert({}, "r1", [thread_id |-> "t1", account |-> "a1", priority |-> PriorityHigh,
                            latest_date |-> 1], 1)

\* A v2 store after the first sync: made by the v2 program, or migrated from a v1
\* store that held one pending record.
InitCmd ==
    /\ emails = SyncedMail
    /\ tables = {"emails", "triage"}
    /\ triageShape = "v2"
    /\ \E old \in {{}, MigratedRecord} :
           /\ triage = CopyPending(old)
           /\ v1Rows = old
    /\ procs = NoProcs
    /\ triage_old = {}
    /\ triage_deps = {}
    /\ issues = <<>>
    /\ upgraded = TRUE
    /\ now = 1
    /\ last = [op |-> "init", key |-> NULL, ok |-> TRUE, out |-> NULL]
    /\ ops = 0
    /\ firstInsert = [i \in {r.id : r \in SyncedMail} |-> CHOOSE r \in SyncedMail : r.id = i]

\* The arguments of mb triage and mb show: a thread of two accounts, a thread of
\* one, a thread of none; no account or one; no priority, a priority, a word that
\* is none; no action or one.
ThreadArgs == ThreadIDs \cup {"t9"}
AccountArgs == {"", "a1"}
PriorityArgs == {"", PriorityLow, "urgent"}
ActionArgs == {"", "reply"}

\* The v2 program's commands on the threads of a store.
NextCmd ==
    \/ \E t \in ThreadArgs, a \in AccountArgs, p \in PriorityArgs, act \in ActionArgs,
          av \in BOOLEAN : TriageCmd(t, a, p, act, av)
    \/ \E t \in ThreadArgs, a \in AccountArgs : ShowCmd(t, a)
    \/ \E x \in DoneRuns : DoneCmd(x[1], x[2], x[3], x[4])
    \/ \E dry \in BOOLEAN, av \in BOOLEAN : MigrateCmd(dry, av)

SpecCmd == InitCmd /\ [][NextCmd]_vars

\* Runs of mb sync: <<--account, the failing step per account, whether bd is on
\* PATH, whether bd comment succeeds>>.
SyncRuns ==
    {<<acc, f, bd[1], bd[2]>> :
        acc \in {"", "a2"},
        f \in [Accounts -> SyncFailures],
        bd \in {<<FALSE, FALSE>>, <<TRUE, FALSE>>, <<TRUE, TRUE>>}}

\* The v2 program as mail keeps arriving: threads are triaged, and sync fetches
\* what is new and notifies the tracker.
NextSync ==
    \/ \E x \in TriageRuns : TriageCmd(x[1], x[2], x[3], x[4], x[5])
    \/ \E x \in SyncRuns : SyncCmd(x[1], x[2], x[3], x[4])
    \/ Tick

SpecSync == InitV2 /\ [][NextSync]_vars

\* The priority mappings over what a caller may pass: the four priorities, words
\* that are none of them, and the numbers of the tracker with some on either side.
PriorityWords == ValidPriorities \cup {"", "urgent", "HIGH", "0", "1"}
BeadsPriorities == (0 - 3)..8

NextPriority ==
    \/ \E p \in PriorityWords : MapToBeads(p)
    \/ \E n \in BeadsPriorities : MapFromBeads(n)

SpecPriority == InitV2 /\ [][NextPriority]_vars

\* Runs of mb done / mb dismiss, as in DoneRuns, with the lists in which an ID whose
\* close fails stands ahead of one whose close succeeds.
DoneListRuns ==
    { <<"done", <<"bd-1">>, TRUE, TRUE>>, <<"dismiss", <<"bd-1">>, FALSE, TRUE>>,
      <<"done", <<"bd-1", "bd-2">>, FALSE, TRUE>>,
      <<"dismiss", <<"legacy-r1", "bd-1">>, TRUE, TRUE>>,
      <<"done", <<"bd-1">>, TRUE, FALSE>> }

\* The v2 program closing what it triaged, on a store whose DELETE may fail.
NextDone ==
    \/ \E x \in TriageRuns : TriageCmd(x[1], x[2], x[3], x[4], x[5])
    \/ \E x \in DoneListRuns : DoneCmd(x[1], x[2], x[3], x[4])
    \/ \E x \in DoneListRuns : DoneStoreFails(x[1], x[2], x[3])

SpecDone == InitCmd /\ [][NextDone]_vars

\* The v2 program on a store whose writes may fail: each of triage, done, dismiss
\* and migrate runs with the store working or with its INSERT / DELETE failing.
NextSteps ==
    \/ \E x \in TriageRuns : TriageCmd(x[1], x[2], x[3], x[4], x[5])
    \/ \E x \in TriageRuns : TriageStoreFails(x[1], x[2], x[3], x[4])
    \/ \E x \in DoneListRuns : DoneCmd(x[1], x[2], x[3], x[4])
    \/ \E x \in DoneListRuns : DoneStoreFails(x[1], x[2], x[3])
    \/ \E dry \in BOOLEAN : MigrateCmd(dry, TRUE)
    \/ MigrateStoreFails

SpecSteps == InitCmd /\ [][NextSteps]_vars

\* Two processes that run mb triage at one time, on one thread or on two.
RacePairs == {<<"t1", "a1">>, <<"t2", "a1">>}

NextRace ==
    \/ \E p \in Procs, x \in RacePairs : ProcLookup(p, x[1], x[2])
    \/ \E p \in Procs : ProcUpdate(p)
    \/ \E p \in Procs : ProcCreate(p)
    \/ \E p \in Procs, engineOk \in BOOLEAN : ProcSave(p, engineOk)

SpecRace == InitCmd /\ [][NextRace]_vars

\* Runs of mb sync in which every step of SyncAccount works or the second account
\* cannot authenticate, with the tracker missing, failing or working.
NotifyRuns ==
    {<<acc, f, bd[1], bd[2]>> :
        acc \in {"", "a2"},
        f \in {[a \in Accounts |-> ""], [a \in Accounts |-> IF a = "a2" THEN "auth failed" ELSE ""]},
        bd \in {<<FALSE, FALSE>>, <<TRUE, FALSE>>, <<TRUE, TRUE>>}}

\* The v2 program as mail keeps arriving for threads that are triaged.
NextNotify ==
    \/ \E x \in TriageRuns : TriageCmd(x[1], x[2], x[3], x[4], x[5])
    \/ \E x \in NotifyRuns : SyncCmd(x[1], x[2], x[3], x[4])
    \/ Tick

SpecNotify == InitV2 /\ [][NextNotify]_vars

\* The ledger of a store through its life, v1 and then v2, on threads of which one
\* has mail under both accounts: mail arrives, threads are triaged and closed, and the
\* store is opened by the v2 program.
NextPair ==
    \/ \E m \in NewMail : InsertEmail(m)
    \/ \E t \in ThreadIDs, a \in Accounts : TriageV1(t, a, PriorityHigh)
    \/ \E id \in TriageIDs, st \in {StatusDone, StatusDismissed} : SetStatusV1(id, st)
    \/ Open(0)
    \/ \E x \in TriageRuns : TriageCmd(x[1], x[2], x[3], x[4], x[5])
    \/ \E x \in DoneRuns : DoneCmd(x[1], x[2], x[3], x[4])

SpecPair == Init /\ [][NextPair]_vars

\* The resolver over every store of up to two records: the two accounts' records of
\* thread t1, each absent or under any ID GenID can return.
InitID ==
    /\ emails = SyncedMail
    /\ tables = {"emails", "triage", "triage_deps"}
    /\ triageShape = "v1"
    /\ \E ids \in [Accounts -> GenIDs \cup {""}] :
           /\ \A a, b \in Accounts : (a # b /\ ids[a] # "") => ids[a] # ids[b]
           /\ triage = UNION {UpsertInsert({}, ids[a],
                                 [thread_id |-> "t1", account |-> a, priority |-> PriorityHigh,
                                  latest_date |-> 1], 1) : a \in {x \in Accounts : ids[x] # ""}}
    /\ triage_old = {}
    /\ triage_deps = {}
    /\ issues = <<>>
    /\ upgraded = FALSE
    /\ now = 1
    /\ last = [op |-> "init", key |-> NULL, ok |-> TRUE, out |-> NULL]
    /\ ops = 0
    /\ firstInsert = [i \in {r.id : r \in SyncedMail} |-> CHOOSE r \in SyncedMail : r.id = i]
    /\ v1Rows = {}
    /\ procs = NoProcs

NextID == \E id \in Queries : Resolve(id)

SpecID == InitID /\ [][NextID]_vars

\* ------------------------------------------------------------------ claims

\* C1: a thread that has been triaged is absent from the untriaged set, and a step
\* that closes a decision (v2 done / dismiss, v1 setStatus) never brings a thread
\* that was absent from the untriaged set back into it.
C1_ClosedStaysTriaged ==
    [][ /\ (last'.op = "UpsertTriage" => last'.key \notin Untriaged')
        /\ ((last'.op = "triage" /\ last'.ok) => last'.key \notin Untriaged')
        /\ (last'.op \in {"done", "dismiss", "UpdateTriageStatus"} =>
               \A p \in EmailThreads : p \notin Untriaged => p \notin Untriaged') ]_vars

PendingV1 ==
    {r \in (IF triageShape = "v1" /\ "triage" \in tables THEN triage ELSE {})
            \cup (IF "triage_old" \in tables THEN triage_old ELSE {}) : r.status = "pending"}

C4_FirstInsertWins ==
    /\ \A a \in emails, b \in emails : a.id = b.id => a = b
    /\ DOMAIN firstInsert = {r.id : r \in emails}
    /\ \A r \in emails : r = firstInsert[r.id]
    /\ (last.op = "InsertEmail" => last.ok)

\* C4 witness: message m1 arrived a second time with other content, at a later
\* time, and the first row stands.
C4_Witness ==
    /\ last.op = "InsertEmail" /\ last.key = "m1" /\ now > 1
    /\ \E r \in emails : r.id = "m1" /\ r.subject = "s1" /\ r.fetched_at = 1

\* C5: the triage relation holds at most one record or ref per (thread_id, account).
C5_OnePerThread ==
    \A a \in triage, b \in triage :
        (a.thread_id = b.thread_id /\ a.account = b.account) => a = b

\* C5 witness: a thread that already had a record was triaged again, next to
\* another thread's record.
C5_Witness ==
    /\ last.op = "UpsertTriage" /\ last.out.created = FALSE
    /\ Cardinality(triage) = 2

\* C6: an upsert on a thread that has a record, whatever its status, leaves that
\* record pending under its ID and created_at, with updated_at set, every other
\* record as it was, and returns created = FALSE; an upsert on a thread without a
\* record adds one pending record under a new ID and returns created = TRUE.
C6_UpsertReopens ==
    [][ last'.op = "UpsertTriage" =>
          LET ofThread(r) == r.thread_id = last'.key[1] /\ r.account = last'.key[2]
              before == {r \in triage : ofThread(r)}
              after == {r \in triage' : ofThread(r)} IN
          /\ Cardinality(after) = 1
          /\ {r \in triage' : ~ofThread(r)} = {r \in triage : ~ofThread(r)}
          /\ \A n \in after :
                 /\ n.status = "pending"
                 /\ last'.out.id = n.id
                 /\ IF before # {}
                    THEN /\ last'.out.created = FALSE
                         /\ n.updated_at = now
                         /\ \A o \in before : n.id = o.id /\ n.created_at = o.created_at
                    ELSE /\ last'.out.created = TRUE
                         /\ n.created_at = now
                         /\ n.id \notin {r.id : r \in triage} ]_vars

\* C6 witness: a record made earlier has been triaged again and is pending.
C6_Witness ==
    /\ last.op = "UpsertTriage" /\ last.out.created = FALSE
    /\ \E r \in triage :
           /\ r.id = last.out.id /\ r.status = "pending"
           /\ r.updated_at # NULL /\ r.created_at < r.updated_at

\* x is a character-for-character prefix of id.
LiteralPrefix(x, id) == Len(x) <= Len(id) /\ SubSeq(id, 1, Len(x)) = x

\* C7: getByID(x) returns the record whose ID equals x when there is one; otherwise
\* the one record whose ID starts with x; not-found when no ID starts with x; the
\* ambiguous-ID error naming every ID that starts with x when several do.
C7_ResolutionOrder ==
    last.op = "GetTriageByID" =>
        LET x == last.key
            all == {r.id : r \in triage}
            starting == {id \in all : LiteralPrefix(x, id)} IN
        IF x \in all THEN last.out = [err |-> "", ids |-> {x}]
        ELSE IF starting = {} THEN last.out = [err |-> "not found", ids |-> {}]
        ELSE IF Cardinality(starting) = 1 THEN last.out = [err |-> "", ids |-> starting]
        ELSE last.out = [err |-> "ambiguous ID", ids |-> starting]

\* C8: every record getByID(x) returns or names has an ID that starts with x,
\* character for character.
C8_LiteralPrefixOnly ==
    last.op = "GetTriageByID" => \A id \in last.out.ids : LiteralPrefix(last.key, id)

\* C9: ready() is exactly the pending records whose snooze time is empty or has
\* passed and none of whose direct dependencies is pending.
C9_ReadyExact ==
    ReadyTriage =
        {r \in triage :
            /\ r.status = "pending"
            /\ (r.snoozed_until = NULL \/ r.snoozed_until <= now)
            /\ \A d \in triage_deps : d.triage_id = r.id =>
                   \A b \in triage : b.id = d.depends_on_id => b.status # "pending"}

\* C9 witness: a ready record whose direct blocker is done while that blocker
\* depends on a third record, which is pending.
C9_Witness ==
    \E a \in ReadyTriage, b \in triage, c \in triage :
        /\ c.id # a.id
        /\ [triage_id |-> a.id, depends_on_id |-> b.id] \in triage_deps
        /\ [triage_id |-> b.id, depends_on_id |-> c.id] \in triage_deps
        /\ b.status = "done"
        /\ c.status = "pending"

\* C10: a pending, unsnoozed record is not ready while a record it depends on is
\* pending; right after setStatus(B, done) every pending, unsnoozed record that
\* depends on B and has no other pending dependency is ready.
C10_BlockedUntilDone ==
    LET waiting(a) == a.status = "pending" /\ a.snoozed_until = NULL
        dependsOn(a, id) == [triage_id |-> a.id, depends_on_id |-> id] \in triage_deps IN
    /\ \A a \in triage, b \in triage :
           (waiting(a) /\ dependsOn(a, b.id) /\ b.status = "pending") => a \notin ReadyTriage
    /\ (last.op = "UpdateTriageStatus" /\ last.ok /\ last.out = "done") =>
           \A a \in triage :
               ( /\ waiting(a)
                 /\ dependsOn(a, last.key)
                 /\ \A b \in triage : (b.id # last.key /\ dependsOn(a, b.id))
                                          => b.status # "pending" )
               => a \in ReadyTriage

\* C10 witness: the blocker of a record has just been marked done and the record
\* is ready.
C10_Witness ==
    /\ last.op = "UpdateTriageStatus" /\ last.ok /\ last.out = "done"
    /\ \E a \in ReadyTriage : [triage_id |-> a.id, depends_on_id |-> last.key] \in triage_deps

\* The account filters and limits a caller passes to untriagedThreads: no filter,
\* each account, a fragment of one; no limit up to more than there are threads.
AccountFilters == Accounts \cup {"", "a"}
Limits == 0..(Cardinality(ThreadIDs \X Accounts))

\* The threads C11 (as stated) expects: no record at all.
NeverTriaged(account) ==
    {p \in EmailThreads : (account = "" \/ p[2] = account) /\ TriageOf(p[1], p[2]) = {}}

\* The threads whose record is older than their latest message.
StaleTriaged(account) ==
    {p \in EmailThreads :
        /\ (account = "" \/ p[2] = account)
        /\ \E t \in TriageOf(p[1], p[2]) :
               t.latest_date < Max({e.date : e \in ThreadEmails(p[1], p[2])})}

\* q lists threads of expected without repetition, latest message first, and it is
\* all of expected, or with a limit > 0 the limit latest of them.
ListsLatestFirst(q, expected, limit) ==
    LET latest(p) == Max({e.date : e \in ThreadEmails(p[1], p[2])})
        listed == {q[i] : i \in 1..Len(q)} IN
    /\ listed \subseteq expected
    /\ Cardinality(listed) = Len(q)
    /\ Len(q) = IF limit > 0 /\ limit < Cardinality(expected)
                THEN limit ELSE Cardinality(expected)
    /\ \A i, j \in 1..Len(q) : i < j => latest(q[i]) >= latest(q[j])
    /\ \A p \in expected \ listed : \A i \in 1..Len(q) : latest(q[i]) >= latest(p)

C12_NewMailSinceTriage ==
    LET listed == {Pair(r.thread_id, r.account) : r \in ThreadsWithNewEmails(emails, triage)} IN
    /\ \A r \in triage :
           Pair(r.thread_id, r.account) \in listed <=>
               \E e \in emails : /\ e.thread_id = r.thread_id /\ e.account = r.account
                                 /\ e.fetched_at > r.created_at
    /\ \A p \in listed : \E r \in triage : p = Pair(r.thread_id, r.account)

\* C12 witness: sync has fetched a message of a thread whose ref is older, the
\* thread is listed, and a thread with a ref and no later message is not.
C12_Witness ==
    /\ last.op = "sync"
    /\ \E r \in ThreadsWithNewEmails(emails, triage) :
           \E e \in emails : /\ e.thread_id = r.thread_id /\ e.account = r.account
                             /\ e.fetched_at = now /\ r.created_at < now
    /\ \E r \in triage : r \notin ThreadsWithNewEmails(emails, triage)

\* C17: mb sync over several accounts returns no error when a step of one account
\* fails: the summary has one result per account, in order; the result of an
\* account that failed carries the error and no fetched message; every account
\* that did not fail has been synced, whatever failed before it.
C17_SyncContinuesPastFailure ==
    last.op = "sync" =>
        LET accounts == IF last.key # "" THEN <<last.key>> ELSE DiscoverAccounts IN
        /\ last.ok
        /\ Len(last.out) = Len(accounts)
        /\ \A k \in 1..Len(accounts) :
               /\ last.out[k].account = accounts[k]
               /\ last.fail[accounts[k]] # "" =>
                      /\ last.out[k].error = last.fail[accounts[k]]
                      /\ last.out[k].fetched = 0
               /\ last.fail[accounts[k]] = "" =>
                      /\ last.out[k].error = ""
                      /\ \A m \in Search(accounts[k], now) : \E e \in emails : e.id = m.id

\* C17 witness: the first account failed and the second fetched new mail.
C17_Witness ==
    /\ last.op = "sync" /\ last.key = ""
    /\ last.fail["a1"] # "" /\ last.out[1].error # ""
    /\ last.fail["a2"] = "" /\ last.out[2].fetched > 0

\* C13: setStatus(x, s) sets the status of the record whose ID is x, character for
\* character, and touches no other record; when no record has the ID x, also when
\* x is the beginning of just one record's ID, it reports not-found and every
\* record is as it was.
C13_SetStatusExactID ==
    [][ last'.op = "UpdateTriageStatus" =>
          LET x == last'.key IN
          IF \E r \in triage : r.id = x
          THEN /\ last'.ok
               /\ {r \in triage' : r.id # x} = {r \in triage : r.id # x}
               /\ Cardinality({r \in triage' : r.id = x}) = 1
               /\ \A r \in triage' : r.id = x => r.status = last'.out
          ELSE /\ ~last'.ok
               /\ triage' = triage ]_vars

\* C13 witness: setStatus with the beginning of the only record's ID found nothing.
C13_Witness ==
    /\ last.op = "UpdateTriageStatus" /\ ~last.ok
    /\ Cardinality({r \in triage : LiteralPrefix(last.key, r.id)}) = 1
    /\ \A r \in triage : r.status = "pending"

\* The elements of a list.
Items(q) == {q[i] : i \in 1..Len(q)}

\* C18: in the status summary the next-actionable list has at most 5 items and
\* shares no item with the high-priority list, in the --json output and in the
\* terminal output.
C18_ActionItemsApartFromHigh ==
    \A noReady \in BOOLEAN : \A o \in StatusV1(noReady) :
        /\ Len(o.action_items) <= 5
        /\ Len(o.next_up) <= 5
        /\ Items(o.high_priority) \cap Items(o.action_items) = {}
        /\ Items(o.high_priority) \cap Items(o.next_up) = {}

\* C19: countByStatus() is a map with exactly the keys pending, done, dismissed
\* and snoozed, each holding the number of records of that status (0 when there
\* is none), in every state upsert and setStatus lead to, the empty store too.
C19_FourStatusCounts ==
    /\ DOMAIN TriageCountByStatus = {"pending", "done", "dismissed", "snoozed"}
    /\ \A s \in {"pending", "done", "dismissed", "snoozed"} :
           TriageCountByStatus[s] = Cardinality({r \in triage : r.status = s})

\* C19 witness: setStatus has just closed a record; one status has two records,
\* one has one, two have none.
C19_Witness ==
    /\ last.op = "UpdateTriageStatus" /\ last.ok
    /\ TriageCountByStatus["pending"] = 2
    /\ TriageCountByStatus["done"] + TriageCountByStatus["dismissed"] = 1
    /\ TriageCountByStatus["snoozed"] = 0

\* s has sub in it, character for character.
Contains(s, sub) ==
    \E k \in 1..(Len(s) - Len(sub) + 1) : SubSeq(s, k, k + Len(sub) - 1) = sub

\* What a caller may pass as the account of list(): nothing, parts of an account
\* name, a part in the other case, the characters _ and %.
AccountFragments == {"", "a", "1", "a2", "A", "_", "%"}

\* C20: list(status, accountSubstring, includeAll) returns exactly the records
\* whose account contains accountSubstring and, unless includeAll, whose status is
\* status (pending when status is empty), ordered by priority rank (high, medium,
\* low, spam) and within a rank by latest_date descending.
C20_ListExact ==
    \A status \in ValidStatuses \cup {""}, account \in AccountFragments, includeAll \in BOOLEAN :
        /\ ListTriage(status, account, includeAll) # {}
        /\ \A q \in ListTriage(status, account, includeAll) :
               /\ Items(q) = {r \in triage :
                                 /\ Contains(r.account, account)
                                 /\ includeAll \/ r.status = (IF status = "" THEN "pending" ELSE status)}
               /\ Cardinality(Items(q)) = Len(q)
               /\ \A i, j \in 1..Len(q) : i < j =>
                      \/ PriorityRank(q[i].priority) < PriorityRank(q[j].priority)
                      \/ /\ q[i].priority = q[j].priority
                         /\ q[i].latest_date >= q[j].latest_date

\* What C14 says of one run of triage or show without --account, on the accounts
\* the thread has mail under.
ResolvesAccount(accounts) ==
    /\ Cardinality(accounts) >= 2 =>
           /\ ~last'.ok
           /\ last'.out.err = "multiple accounts"
           /\ last'.out.listed = accounts
           /\ triage' = triage /\ issues' = issues /\ emails' = emails
    /\ Cardinality(accounts) = 1 =>
           /\ last'.out.account \in accounts
           /\ last'.out.err \notin {"multiple accounts", "thread not found"}
    /\ accounts = {} =>
           /\ ~last'.ok
           /\ last'.out.err = "thread not found"
           /\ triage' = triage /\ issues' = issues /\ emails' = emails

\* C14 as stated: triage or show with a thread ID and no account fails with an
\* error that lists the accounts and writes nothing when the thread is under two
\* or more accounts, uses the account when it is under one, fails with not-found
\* when it is under none; it never picks one of several accounts.
C14_AccountResolved ==
    [][ (last'.op \in {"triage", "show"} /\ last'.in.account = "") =>
            ResolvesAccount(ThreadAccounts(last'.key[1])) ]_vars

\* C14 (amended): the same of show, and of triage when the tracker binary is
\* available; without the binary triage fails before it looks the thread up, with
\* an error that names no account, and writes nothing.
C14_AccountResolvedWithTracker ==
    [][ (last'.op \in {"triage", "show"} /\ last'.in.account = "") =>
            IF last'.op = "show" \/ last'.in.bd
            THEN ResolvesAccount(ThreadAccounts(last'.key[1]))
            ELSE /\ ~last'.ok
                 /\ last'.out.listed = {}
                 /\ triage' = triage /\ issues' = issues /\ emails' = emails ]_vars

\* C14 witness: triage of a thread that is under two accounts, with the tracker at
\* hand and no account given, failed and named both.
C14_Witness ==
    /\ last.op = "triage" /\ last.in.account = "" /\ last.in.bd
    /\ last.in.action # ""
    /\ ~last.ok /\ Cardinality(last.out.listed) = 2

\* C15: a triage request whose action is empty, or whose priority is given and is
\* none of high, medium, low, spam, is rejected and nothing is persisted: no issue
\* is created or updated, no ref is written or changed.
C15_RejectedBeforePersistence ==
    [][ ( /\ last'.op = "triage"
          /\ \/ last'.in.action = ""
             \/ last'.in.priority \notin {"", "high", "medium", "low", "spam"} ) =>
            /\ ~last'.ok
            /\ triage' = triage
            /\ issues' = issues ]_vars

\* C15 witness: a triage of a thread without a ref, with the tracker at hand, an
\* action and an unknown priority, was rejected for its priority.
C15_Witness ==
    /\ last.op = "triage" /\ last.in.bd /\ last.in.action # ""
    /\ last.in.priority = "urgent"
    /\ ~last.ok /\ last.out.err = "invalid priority"
    /\ TriageOf(last.key[1], last.key[2]) = {}
    /\ ThreadEmails(last.key[1], last.key[2]) # {}

\* C16: without the tracker binary, triage, done, dismiss and migrate each fail
\* and change nothing: the refs (and the tracker's issues) are as before.
C16_NoTrackerNoChange ==
    [][ (last'.op \in {"triage", "done", "dismiss", "migrate"} /\ ~last'.in.bd) =>
            /\ ~last'.ok
            /\ triage' = triage
            /\ issues' = issues ]_vars

\* C16 witness: done, named the issue of an existing ref, failed for want of the
\* tracker binary, next to a placeholder ref that migrate would replace.
C16_Witness ==
    /\ last.op = "done" /\ ~last.in.bd /\ ~last.ok
    /\ \E r \in triage : r.bead_id = "bd-1"
    /\ LegacyTriageRefs(triage) # {}

\* C21: placeholder refs are inert: neither mb triage on a thread whose ref still is
\* a placeholder nor the notification after a sync runs a tracker update or comment
\* on an ID that carries the "legacy-" prefix.
C21_PlaceholdersInert ==
    /\ last.op = "triage" => \A id \in TriageUpdates(last.out) : ~HasPrefix(id, LegacyPrefix)
    /\ \A id \in NotifyComments(emails, triage) : ~HasPrefix(id, LegacyPrefix)

\* What C22 supposes of a run of mb migrate: every placeholder's thread still has
\* messages, and the tracker can create an issue for each.
MigrateCanFinish ==
    /\ \A r \in LegacyTriageRefs(triage) : HasThread(r.thread_id, r.account)
    /\ Cardinality(BeadIDs \ DOMAIN issues) >= Cardinality(LegacyTriageRefs(triage))

\* C22: after mb migrate without --dry-run, with the tracker available, every create
\* succeeding and every placeholder's thread still having messages, no ref carries
\* the placeholder prefix, the ref of each thread that had a placeholder names an
\* issue created in this run (one issue per placeholder), the other refs are as they
\* were, and a further run of mb migrate creates no issue and changes no ref.
C22_MigrateResolvesPlaceholders ==
    [][ (last'.op = "migrate" /\ ~last'.key /\ last'.in.bd /\ MigrateCanFinish) =>
            /\ LegacyTriageRefs(triage') = {}
            /\ \A r \in LegacyTriageRefs(triage) :
                   \E x \in triage' : /\ x.thread_id = r.thread_id /\ x.account = r.account
                                      /\ x.bead_id \in DOMAIN issues' \ DOMAIN issues
            /\ Cardinality(DOMAIN issues' \ DOMAIN issues) = Cardinality(LegacyTriageRefs(triage))
            /\ Cardinality({x.bead_id : x \in triage' \ triage}) = Cardinality(LegacyTriageRefs(triage))
            /\ triage \ LegacyTriageRefs(triage) \subseteq triage'
            /\ Cardinality(triage') = Cardinality(triage)
            /\ MigrateLoop(LegacyTriageRefs(triage'), issues', triage')
                   = [issues |-> issues', triage |-> triage'] ]_vars

\* C22 witness: mb migrate was run again after a run that replaced two placeholders:
\* it found none, and the refs of the two threads name two issues of the tracker.
C22_Witness ==
    /\ last.op = "migrate" /\ ~last.key /\ last.in.bd /\ last.out = 0
    /\ Cardinality({r \in v1Rows : r.status = StatusPending}) >= 2
    /\ \A r \in {x \in v1Rows : x.status = StatusPending} :
           \E x \in triage : /\ x.thread_id = r.thread_id /\ x.account = r.account
                             /\ x.bead_id \in DOMAIN issues
    /\ Cardinality({x.bead_id : x \in triage}) >= 2

\* C23: mb migrate --dry-run changes nothing: it creates no issue in the tracker and
\* leaves every ref, the placeholders among them, and every message as it was.
C23_DryRunChangesNothing ==
    [][ (last'.op = "migrate" /\ last'.key) =>
            /\ issues' = issues
            /\ triage' = triage
            /\ emails' = emails ]_vars

\* C23 witness: a dry run with the tracker available has found a placeholder whose
\* thread has messages, and the placeholder is still there.
C23_Witness ==
    /\ last.op = "migrate" /\ last.key /\ last.in.bd /\ last.ok /\ last.out >= 1
    /\ \E r \in LegacyTriageRefs(triage) : HasThread(r.thread_id, r.account)

\* The priorities in the order of their numbers in the tracker, from 1.
PriorityOrder == <<PriorityHigh, PriorityMedium, PriorityLow, PrioritySpam>>

\* C24: the priority mapping is fixed and round-trips: PriorityToBeads gives 1, 2, 3,
\* 4 for high, medium, low, spam, 2 for any other input and never 0; reading back
\* what it gave for one of the four priorities gives that priority; PriorityFromBeads
\* gives high for 0 and for 1, and medium for every number outside 0..4.
C24_PriorityMapping ==
    /\ last.op = "PriorityToBeads" =>
           /\ \A i \in 1..4 : last.key = PriorityOrder[i] => last.out = Numerals[i + 1]
           /\ last.key \notin ValidPriorities => last.out = Numerals[3]
           /\ last.out # Numerals[1]
           /\ last.key \in ValidPriorities =>
                  PriorityFromBeads(IssuePriority(last.out)) = last.key
    /\ last.op = "PriorityFromBeads" =>
           /\ last.key \in {0, 1} => last.out = PriorityHigh
           /\ last.key \notin 0..4 => last.out = PriorityMedium
           /\ last.key \in 1..4 => last.out = PriorityOrder[last.key]

\* C24 witness: the tracker's most urgent number, which no mailbeads priority is
\* written as, was read back as high.
C24_Witness ==
    /\ last.op = "PriorityFromBeads" /\ last.key = 0 /\ last.out = PriorityHigh
    /\ \A p \in ValidPriorities : IssuePriority(PriorityToBeads(p)) # last.key

\* The IDs a caller may name: those of the tracker, one it never issued, and
\* whatever the refs carry.
RefIDs == BeadIDs \cup {"bd-9"} \cup {r.bead_id : r \in triage}

\* C25: DeleteTriageRef is best-effort and idempotent: for an ID that no ref carries
\* it changes nothing (and is no error: done and dismiss go on), deleting twice
\* leaves what deleting once leaves, and a ref with another bead ID is never
\* removed; a run of done / dismiss removes exactly the refs of the issues it closed.
C25_DeleteRefIdempotent ==
    [][ last'.op \in {"done", "dismiss"} =>
            /\ \A id \in RefIDs :
                   /\ (\A r \in triage : r.bead_id # id) => DeleteTriageRef(triage, id) = triage
                   /\ DeleteTriageRef(DeleteTriageRef(triage, id), id) = DeleteTriageRef(triage, id)
                   /\ \A r \in triage : r.bead_id # id => r \in DeleteTriageRef(triage, id)
                   /\ \A r \in DeleteTriageRef(triage, id) : r \in triage /\ r.bead_id # id
            /\ triage' = {r \in triage : r.bead_id \notin last'.out} ]_vars

\* C25 witness: done closed one issue and its ref is gone; the ref of another
\* thread, which names an issue that is still open, is still there.
C25_Witness ==
    /\ last.op = "done" /\ last.ok /\ last.out = {"bd-1"}
    /\ \A r \in triage : r.bead_id \notin last.out
    /\ \E r \in triage : r.bead_id \in DOMAIN issues /\ issues[r.bead_id] = "open"

\* The operations of the triage ledger, by the name they leave in last.op: the v1
\* upsert and setStatus, Open with its migration, and the v2 commands.
LedgerOps == {"UpsertTriage", "UpdateTriageStatus", "Open", "triage", "done", "dismiss", "migrate"}

\* C26: messages are immutable and the message store does not depend on the ledger:
\* no operation of the ledger inserts, changes or deletes a message row (or drops the
\* emails table), inserting a message changes no record, ref, dependency or table of
\* the ledger, and no step at all changes or deletes a message that is stored.
C26_MessagesApartFromLedger ==
    [][ /\ last'.op \in LedgerOps =>
               /\ emails' = emails
               /\ "emails" \in tables => "emails" \in tables'
        /\ last'.op = "InsertEmail" =>
               /\ triage' = triage /\ triage_old' = triage_old /\ triage_deps' = triage_deps
               /\ tables' = tables /\ triageShape' = triageShape
               /\ issues' = issues
        /\ emails \subseteq emails' ]_vars

\* C26 witness: a store that held a v1 record was migrated, took a message after its
\* first sync, and done has closed an issue and deleted its ref; the mail of the
\* first sync is all there.
C26_Witness ==
    /\ last.op = "done" /\ last.ok /\ last.out # {}
    /\ v1Rows # {}
    /\ SyncedMail \subseteq emails
    /\ emails # SyncedMail

\* C27: a run of done or dismiss that names an ID the tracker has no issue for (its
\* close fails as not found) ends as a failure: the exit status is not zero.
C27_UnknownIDFails ==
    [][ \A x \in DoneRuns :
            (/\ DoneCmd(x[1], x[2], x[3], x[4])
             /\ \E k \in 1..Len(x[2]) : x[2][k] \notin DOMAIN issues)
                => ExitCode(last'.ok) # 0 ]_vars

\* C28: opening a store that already has the v2 shape is idempotent: every Open of
\* it, failed or not, leaves all messages and all refs as they were; and the
\* migration is applied at most once in the life of a store: an Open whose migration
\* changed the store leaves it a store that needs no migration, and a store that
\* needs none never comes to need one, so no later Open adds, drops or alters a ref.
C28_OpenIdempotent ==
    [][ /\ last'.op = "Open" =>
               /\ emails' = emails
               /\ ~NeedsMigration(DB) =>
                      /\ ~last'.key
                      /\ triage' = triage
                      /\ triage_old' = triage_old
               /\ V2Store => storeVars' = storeVars
               /\ (last'.key /\ storeVars' # storeVars) => ~NeedsMigration(DB)'
        /\ ~NeedsMigration(DB) => ~NeedsMigration(DB)' ]_vars

\* C28 witness: a store migrated from v1 with a pending record was opened again,
\* with success and without a migration; its placeholder ref is there.
C28_Witness ==
    /\ last.op = "Open" /\ last.ok /\ ~last.key
    /\ V2Store
    /\ \E r \in v1Rows : /\ r.status = StatusPending
                         /\ \E x \in triage : x.bead_id = LegacyPrefix \o r.id

\* C29: in done / dismiss over a list of IDs the ref of an ID is deleted only once
\* the close of that ID has succeeded; when the close of an ID fails the refs that
\* carry it are retained, and the IDs after it are still processed.
C29_DeleteOnlyAfterClose ==
    [][ /\ last'.op \in {"done", "dismiss"} =>
               \A r \in triage \ triage' :
                   /\ r.bead_id \in last'.out
                   /\ r.bead_id \in DOMAIN issues' /\ issues'[r.bead_id] = "closed"
        /\ \A x \in DoneListRuns :
               (DoneCmd(x[1], x[2], x[3], x[4]) /\ x[4]) =>
                   \A k \in 1..Len(x[2]) :
                       IF CloseOk(issues, x[2][k], x[3])
                       THEN /\ x[2][k] \in last'.out
                            /\ issues'[x[2][k]] = "closed"
                            /\ \A r \in triage' : r.bead_id # x[2][k]
                       ELSE /\ x[2][k] \notin last'.out
                            /\ \A r \in triage : r.bead_id = x[2][k] => r \in triage'
                            /\ x[2][k] \in DOMAIN issues => issues'[x[2][k]] = issues[x[2][k]]
      ]_vars

\* C29 witness: done bd-1 bd-2 could not close bd-1, which was closed already, and
\* kept the ref of bd-1; it went on to close bd-2 and deleted the ref of bd-2.
C29_Witness ==
    /\ last.op = "done" /\ last.in.bd /\ last.out = {"bd-2"}
    /\ {"bd-1", "bd-2"} \subseteq DOMAIN issues
    /\ issues["bd-1"] = "closed" /\ issues["bd-2"] = "closed"
    /\ \E r \in triage : r.bead_id = "bd-1"
    /\ \A r \in triage : r.bead_id # "bd-2"

\* The refs that are stale: they name an issue that the tracker has closed.
StaleRefs == {r \in triage : r.bead_id \in DOMAIN issues /\ issues[r.bead_id] = "closed"}

\* C30: after a partial failure that left an issue closed and its ref in the store,
\* a later run of done / dismiss for the same ID, with the tracker available and the
\* store working, removes the stale ref: no ref names the closed issue any more.
C30_RetryRemovesStaleRef ==
    [][ \A x \in DoneListRuns :
            (DoneCmd(x[1], x[2], x[3], x[4]) /\ x[4]) =>
                \A k \in 1..Len(x[2]) :
                    (\E r \in StaleRefs : r.bead_id = x[2][k]) =>
                        \A r \in triage' : r.bead_id # x[2][k] ]_vars

\* C31: mb triage on a thread that already has a ref creates no issue: the tracker's
\* issues and the refs are as before, the thread has exactly one ref, and a run that
\* succeeds has updated the issue the ref names and reports created = FALSE; an issue
\* is created only for a thread that had no ref, and its ID becomes the thread's ref.
C31_RetriageUpdates ==
    [][ last'.op = "triage" =>
            /\ HasTriageRef(last'.key[1], last'.key[2]) =>
                   /\ issues' = issues
                   /\ triage' = triage
                   /\ Cardinality(TriageOf(last'.key[1], last'.key[2])) = 1
                   /\ last'.ok =>
                          /\ ~last'.out.created
                          /\ last'.out.beadID = GetTriageRef(last'.key[1], last'.key[2]).bead_id
                          /\ TriageUpdates(last'.out) = {last'.out.beadID}
            /\ issues' # issues =>
                   /\ ~HasTriageRef(last'.key[1], last'.key[2])
                   /\ last'.ok /\ last'.out.created
                   /\ DOMAIN issues' = DOMAIN issues \cup {last'.out.beadID}
                   /\ last'.out.beadID \notin DOMAIN issues
                   /\ {r.bead_id : r \in {x \in triage' : /\ x.thread_id = last'.key[1]
                                                          /\ x.account = last'.key[2]}}
                          = {last'.out.beadID} ]_vars

\* C31 witness: a thread that had a ref naming an issue was triaged again: the run
\* succeeded, reports created = FALSE and the issue of the ref, which is the only
\* issue there is.
C31_Witness ==
    /\ last.op = "triage" /\ last.ok /\ ~last.out.created
    /\ DOMAIN issues = {last.out.beadID}
    /\ {r.bead_id : r \in TriageOf(last.key[1], last.key[2])} = {last.out.beadID}

\* A ref the tracker can take a comment for: no placeholder, and its issue exists.
Commentable(r) == ~HasPrefix(r.bead_id, LegacyPrefix) /\ r.bead_id \in DOMAIN issues

TouchedPairs ==
    CASE last'.op \in {"UpsertTriage", "triage"} -> {last'.key}
      [] last'.op = "UpdateTriageStatus" ->
            {Pair(r.thread_id, r.account) : r \in {x \in triage : x.id = last'.key}}
      [] OTHER ->
            {Pair(r.thread_id, r.account) : r \in {x \in triage : x.bead_id \in last'.out}}

\* C33: triage state is keyed by the (thread_id, account) pair: triaging, re-triaging
\* or closing a thread under one account never creates, changes or removes the record
\* or ref of another pair, the same thread under another account in particular, and
\* never changes whether that pair is listed as untriaged.
C33_KeyedByPair ==
    [][ last'.op \in {"UpsertTriage", "UpdateTriageStatus", "triage", "done", "dismiss"} =>
            /\ \A r \in (triage \ triage') \cup (triage' \ triage) :
                   Pair(r.thread_id, r.account) \in TouchedPairs
            /\ (Untriaged \ Untriaged') \cup (Untriaged' \ Untriaged) \subseteq TouchedPairs ]_vars

\* C33 witness: thread t1 has mail under both accounts and was triaged under both;
\* done has closed the issue of one and deleted its ref, so that pair is untriaged
\* again, while the other pair has its ref and is not.
C33_Witness ==
    /\ last.op = "done" /\ last.ok /\ Cardinality(last.out) = 1
    /\ \E a \in Accounts, b \in Accounts :
           /\ a # b
           /\ Pair("t1", a) \in Untriaged /\ ~HasTriageRef("t1", a)
           /\ Pair("t1", b) \notin Untriaged
           /\ \E r \in TriageOf("t1", b) : r.bead_id \in DOMAIN issues /\ r.bead_id \notin last.out

\* C34: whatever steps of triage, done, dismiss and migrate fail, every open issue
\* of the tracker is named by exactly one ref of the store.
C34_OpenRecordsNamedOnce ==
    \A b \in DOMAIN issues :
        issues[b] = "open" => Cardinality({r \in triage : r.bead_id = b}) = 1

\* C35: the untriaged count of status / stats is the number of threads that
\* mb untriaged lists with no account filter and no limit.
C35_CountMatchesList == UntriagedCount = Cardinality(Untriaged)

\* C36: on the v2 shape the counts of status / stats partition the threads: the
\* untriaged count and the triaged count add up to the thread count, and every ref
\* is of a thread that has a stored message.
C36_CountsPartition ==
    V2Store =>
        /\ UntriagedCount + TriagedCount = ThreadCount
        /\ \A r \in triage : HasThread(r.thread_id, r.account)

\* Refs and untriaged threads side by side, after a triage of a thread that has no
\* message under the account named.
C36_Witness ==
    /\ last.op = "triage" /\ last.out.err = "thread not found in account"
    /\ TriagedCount > 0 /\ UntriagedCount > 0
    /\ \E r \in triage : r.bead_id \in DOMAIN issues

\* C37: in every run of mb sync the fetched count of an account is the number of
\* messages the run newly stored for it, total_new is the growth of the message
\* count, and fetched + skipped is at most the number of search results.
C37_SyncAccounting ==
    [][ last'.op = "sync" /\ ops' = ops + 1 =>
            /\ \A k \in 1..Len(last'.out) :
                   LET r == last'.out[k] IN
                   /\ r.fetched = Cardinality({e \in emails' \ emails : e.account = r.account})
                   /\ r.fetched + r.skipped <= Cardinality(Search(r.account, now))
            /\ TotalNew(last'.out) = EmailCount' - EmailCount ]_vars

\* A run over both accounts that stored new messages and found others stored already.
C37_Witness ==
    /\ last.op = "sync" /\ Len(last.out) = 2
    /\ \E k \in 1..2 : last.out[k].fetched > 0 /\ last.out[k].skipped > 0
    /\ TotalNew(last.out) > 0

\* The two processes run mb triage for the pair, and one of them found it untriaged.
Racing(threadID, account) ==
    /\ \A p \in Procs : /\ procs[p].pc # "none"
                        /\ procs[p].thread = threadID /\ procs[p].account = account
    /\ \E p \in Procs : procs[p].pc \in {"create", "save"} \/ procs[p].created
                           \/ procs[p].err = "create beads issue"

\* C38: when two invocations of mb triage for one untriaged pair interleave, the pair
\* has at most one ref, the ref names an issue that one of the two created, and an
\* invocation that created an issue and did not write its ref ends with an error.
C38_ConcurrentTriage ==
    \A x \in RacePairs :
        Racing(x[1], x[2]) =>
            /\ Cardinality(TriageOf(x[1], x[2])) <= 1
            /\ \A r \in TriageOf(x[1], x[2]) :
                   \E p \in Procs : procs[p].created /\ procs[p].beadID = r.bead_id
            /\ \A p \in Procs :
                   procs[p].pc = "exit" /\ procs[p].created /\ ~procs[p].wrote
                       => procs[p].err # ""
            /\ \A p \in Procs :
                   procs[p].pc = "exit" /\ procs[p].err = "" => HasTriageRef(x[1], x[2])

\* Both invocations found (t1, a1) untriaged, each created an issue, and each wrote
\* its ref, the second over the first.
C38_Witness ==
    /\ Racing("t1", "a1")
    /\ \A p \in Procs : procs[p].pc = "exit" /\ procs[p].created /\ procs[p].wrote
    /\ procs["p1"].beadID # procs["p2"].beadID
    /\ Cardinality(TriageOf("t1", "a1")) = 1

====
